---- MODULE Spec2Model ----
(***************************************************************************)
(* Verification model of the OTA update engine (lib/OTACore) of            *)
(* esp32-ota-update: the update state machine, its RTC-backed persistent   *)
(* record and the platform update-partition primitives it drives.          *)
(***************************************************************************)
EXTENDS Integers, Sequences, FiniteSets, TLC

\* ------------------------------------------------------------------ bounds
\* Size of the next update partition when the device has one.
MaxPartition == 2

\* Chunk events the HTTP layer delivers within one upload.
MaxChunks == 2

\* Modulus of the millisecond clock (millis() wraps; kept narrow here).
ClockMod == 32

\* Last value of the clock in the runs that exercise every operation of the
\* connectivity supervisor.
MaxTime == 5

\* Longest connect() timeout tried.
MaxTimeout == 2

\* Longest reconnect interval tried.
MaxInterval == 2

\* Link events that can be waiting for the event task.
MaxEvents == 2

\* Reconnect attempts whose times are recorded.
MaxLog == 11

\* Failed update attempts in a row that are counted.
MaxFailures == 2

\* Restarts caused by the tick that are followed after one completed update.
MaxReboots == 2

\* ------------------------------------------------- OTACore::Status (enum)
IDLE == 0
RECEIVING == 1
COMPLETE == 2
ERROR == 3
REBOOTING == 4

StatusValues == {IDLE, RECEIVING, COMPLETE, ERROR, REBOOTING}

\* ------------------------------------------ NetworkManager::Status (enum)
DISCONNECTED == 0
CONNECTING == 1
CONNECTED == 2
FAILED == 3
RECONNECTING == 4

MAX_RECONNECT_ATTEMPTS == 5

\* ------------------------------------------------------- 32-bit unsigned
\* A uint32_t is kept as two 16-bit halves so that 0xDEADBEEF stays exact.
Half == 2^16

U32(n) == [hi |-> (n \div Half) % Half, lo |-> n % Half]

\* RTC_MAGIC = 0xDEADBEEF
RTC_MAGIC == [hi |-> 57005, lo |-> 48879]

RECURSIVE Xor16(_, _)
\* Bitwise exclusive or of two naturals (operator ^ on one 16-bit half).
Xor16(a, b) ==
    IF a = 0 THEN b
    ELSE IF b = 0 THEN a
    ELSE (((a % 2) + (b % 2)) % 2) + (2 * Xor16(a \div 2, b \div 2))

\* crc ^= x on uint32_t
Xor32(x, y) == [hi |-> Xor16(x.hi, y.hi), lo |-> Xor16(x.lo, y.lo)]

\* (uint32_t) of a bool: the byte that holds it (1 for true, 0 for false),
\* zero-extended.
BoolU32(b) == U32(b)

\* Mutant: the progress is left out of the checksum.
calculateCRC_NoProgress(r) ==
    Xor32(Xor32(Xor32(U32(0), r.magic), BoolU32(r.otaEnabled)), U32(r.status))

\* OTACore::calculateCRC over a record's magic, otaEnabled, status, progress
calculateCRC(r) ==
    Xor32(Xor32(Xor32(Xor32(U32(0), r.magic), BoolU32(r.otaEnabled)),
                U32(r.status)), U32(r.progress))

\* RTCData x = {0}
ZeroRTC == [magic |-> U32(0), otaEnabled |-> 0, status |-> IDLE,
            progress |-> 0, crc |-> U32(0)]

\* ------------------------------------------------ single-bit corruption
\* Bit k of the natural number v.
BitOf(v, k) == (v \div (2^k)) % 2

\* A uint32_t field (magic, crc) with bit k (0..31) inverted.
FlipU32(x, k) ==
    IF k < 16 THEN [x EXCEPT !.lo = Xor16(@, 2^k)]
    ELSE [x EXCEPT !.hi = Xor16(@, 2^(k - 16))]

\* A 32-bit signed field (status, progress) holding v >= 0 with bit k
\* inverted; bit 31 is the sign bit of the two's complement value.
FlipInt(v, k) ==
    IF k = 31 THEN (v - 2^30) - 2^30
    ELSE IF BitOf(v, k) = 1 THEN v - 2^k ELSE v + 2^k

\* The byte of the bool field with bit k (0..7) inverted.
FlipByte(b, k) == Xor16(b, 2^k)

\* The fields of RTCData and the number of bits each one holds.
Fields == {"magic", "otaEnabled", "status", "progress", "crc"}

FieldBits(f) == IF f = "otaEnabled" THEN 8 ELSE 32

\* The record r with bit k of field f inverted.
FlipField(r, f, k) ==
    CASE f = "magic" -> [r EXCEPT !.magic = FlipU32(@, k)]
      [] f = "crc" -> [r EXCEPT !.crc = FlipU32(@, k)]
      [] f = "otaEnabled" -> [r EXCEPT !.otaEnabled = FlipByte(@, k)]
      [] f = "status" -> [r EXCEPT !.status = FlipInt(@, k)]
      [] f = "progress" -> [r EXCEPT !.progress = FlipInt(@, k)]

\* No fault happened.
NoFlip == [field |-> "none", bit |-> 0]

\* -------------------------------------------------------- error messages
NoError == ""
ErrAlreadyInProgress == "OTA already in progress"
ErrInvalidSize == "Invalid update size"
ErrInsufficientSpace == "Update size exceeds available space"
ErrStartFailed == "Failed to start update: "
ErrNotReceiving == "OTA not in receiving state"
ErrInvalidBuffer == "Invalid data buffer"
ErrWriteFailed == "Write error: "
ErrCommitFailed == "Failed to finish update: "
ErrAborted == "Update aborted"

\* ----------------------------------------------------------------- state
VARIABLES
    running,       \* the firmware is executing (FALSE once ESP.restart() was called)
    status,        \* OTACore::_status
    progress,      \* OTACore::_progress
    lastError,     \* OTACore::_lastError
    callback,      \* OTACore::_callback is set
    persistent,    \* OTACore::_persistent
    rtcData,       \* OTACore::_rtcData (RAM copy of the record)
    rtc_ota_data,  \* RTC_DATA_ATTR rtc_ota_data (the reset-surviving record)
    begun,         \* OTACore::begin has run since boot (Update.onProgress is set)
    upd,           \* the platform update session (Update object)
    last,          \* the last operation: name, argument, result, calls it made
    flip,          \* the bit of the RTC record that a fault flipped, if any
    uploadSize,    \* OTAWebServer::_uploadSize
    uploadReceived,\* OTAWebServer::_uploadReceived
    http,          \* the upload request being parsed and what its handler did
    nm,            \* NetworkManager's static members
    wifi,          \* the platform WiFi station and its pending events
    now,           \* millis()
    conn,          \* the connect() call in progress, if any
    netOp,         \* the last step of the supervisor: calls and notifications
    noted,         \* the status last passed to NetworkManager::_callback
    attemptLog,    \* the times of the first reconnect attempts
    retry,         \* the failed update attempts in a row and what followed the last
    race,          \* updateStatus calls in progress in the two tasks, and the notifications made
    req,           \* the HTTP request being served: its credentials and the responses sent
    compat,        \* ElegantOTACompat: its mode and the user callbacks invoked
    reboots        \* restarts the tick caused since the last completed update

\* The engine and the platform session it drives.
engineVars == <<running, status, progress, lastError, callback, persistent,
                rtcData, rtc_ota_data, begun, upd, last>>

\* What surrounds the engine.
envVars == <<flip, uploadSize, uploadReceived, http,
            nm, wifi, now, conn, netOp, noted, attemptLog, retry,
            race, req, compat, reboots>>

\* What only the runs of one layer or one schedule follow.
auxVars == <<race, req, compat, reboots>>

\* The connectivity supervisor and the link it drives.
netVars == <<nm, wifi, now, conn, netOp, noted, attemptLog>>

\* The upload adapter of OTAWebServer.
uploadVars == <<uploadSize, uploadReceived, http>>

vars == <<engineVars, envVars>>

\* Platform session with nothing open.
UpdClosed == [open |-> FALSE, size |-> 0, written |-> 0, chunks |-> <<>>]

\* One call made by an operation: a platform primitive (k names it, res is
\* what it returned, 1 for success or the byte count taken) or the status
\* callback (k = "cb") with the values passed (st, pg) and, to read the order
\* of effects, the in-memory (ms, mp) and persisted (rs, rp) status/progress
\* at the moment of the call.
Call(k, res) ==
    [k |-> k, res |-> res, st |-> -1, pg |-> -1, ms |-> -1, mp |-> -1,
     rs |-> -1, rp |-> -1]

Notify(st, pg, ms, mp, rtc) ==
    [k |-> "cb", res |-> 0, st |-> st, pg |-> pg, ms |-> ms, mp |-> mp,
     rs |-> rtc.status, rp |-> rtc.progress]

\* OTACore::updateCallback: forwards to _callback when one is set.
updateCallback(st, pg, ms, mp, rtc) ==
    IF callback THEN <<Notify(st, pg, ms, mp, rtc)>> ELSE <<>>

\* The record of an operation: its name, its argument (for finishUpdate and
\* abortUpdate, which take none, the platform session they found), what it
\* returned and the calls it made, in order.
Op(name, arg, ret, events) == [op |-> name, arg |-> arg, ret |-> ret, events |-> events]

\* A bool result or argument, as kept in the operation record.
B2I(b) == IF b THEN 1 ELSE 0

\* Mutant: the record is written whether or not persistence is enabled.
saveToRTC_Unguarded(p, r, rtc) ==
    LET s == [r EXCEPT !.crc = calculateCRC(r)] IN <<s, s>>

\* OTACore::saveToRTC with _persistent = p: the record r gets its crc and is
\* copied to RTC memory; the pair <<_rtcData, rtc_ota_data>> after the call.
saveToRTC(p, r, rtc) ==
    IF ~p THEN <<r, rtc>>
    ELSE LET s == [r EXCEPT !.crc = calculateCRC(r)] IN <<s, s>>

\* Mutant: the checksum is not compared.
ValidRecord_MagicOnly(r) == r.magic = RTC_MAGIC

\* OTACore::loadFromRTC validation of the record read from RTC memory.
ValidRecord(r) == r.magic = RTC_MAGIC /\ r.crc = calculateCRC(r)

\* OTACore::getAvailableSize: the size of the next update partition.
getAvailableSize == MaxPartition

\* ------------------------------------------------- guards and assignments
\* Mutant: only a transfer in progress blocks a new start.
CanStart_OnlyReceivingBlocks(st) == st # RECEIVING

\* startUpdate: if (_status != Status::IDLE) is not taken.
CanStart(st) == st = IDLE

\* Mutant: the size check is dropped (an unsigned size is never below 0).
InvalidSize_Never(size) == size < 0

\* startUpdate: if (size == 0)
InvalidSize(size) == size = 0

\* Mutant: off by one, a size equal to the partition size is refused.
SizeTooLarge_OffByOne(size) == size >= getAvailableSize

\* startUpdate: if (size > availableSize)
SizeTooLarge(size) == size > getAvailableSize

\* Mutant: writes are refused only in Idle.
CanWrite_UnlessIdle(st) == st # IDLE

\* writeData: if (_status != Status::RECEIVING) is not taken.
CanWrite(st) == st = RECEIVING

\* finishUpdate: if (_status != Status::RECEIVING) is not taken.
CanFinish(st) == st = RECEIVING

\* Mutant: the progress is left as the platform last reported it.
CommittedProgress_Kept(pg) == pg

\* finishUpdate: _progress = 100 after a successful commit (pg: the old value).
CommittedProgress(pg) == 100

\* Mutant: the progress is not reset.
AbortedProgress_Kept(pg) == pg

\* abortUpdate: _progress = 0 (pg: the old value).
AbortedProgress(pg) == 0

\* Mutant: the tick also restarts the device after a failed update.
ShouldReboot_AlsoOnError(st) == st \in {COMPLETE, ERROR}

\* handle: if (_status == Status::COMPLETE)
ShouldReboot(st) == st = COMPLETE

\* Mutant: an Error is not cleared by abortUpdate.
AbortedStatus_ErrorKept(st) == IF st = ERROR THEN ERROR ELSE IDLE

\* abortUpdate: _status = Status::IDLE (st: the old value).
AbortedStatus(st) == IDLE

\* No upload request is being parsed. Of an upload: startOk, its start event
\* got the engine started; rejected, one of its chunks was not taken whole;
\* delivered, the bytes its chunk events carried; n, the number of them; call,
\* the engine operation its last event invoked; sent, the response code the
\* handler sent on that event (0 for none); event, what became of the
\* progress computation on that event ("none": not reached, "progress": the
\* value was passed to sendEvent, "trap": the division trapped and the
\* handler did not return); value, the int progress computed.
HttpIdle == [phase |-> "idle", startOk |-> FALSE, rejected |-> FALSE,
             delivered |-> 0, n |-> 0, call |-> "none", sent |-> 0,
             event |-> "none", value |-> 0]

\* NetworkManager's static member definitions; the time unit is the default
\* reconnect interval (30000 ms).
NmStatic == [status |-> DISCONNECTED, autoReconnect |-> TRUE,
             reconnectInterval |-> 1, lastReconnectAttempt |-> 0,
             callback |-> FALSE, reconnectAttempts |-> 0]

\* The station before any WiFi.begin: link, WiFi.status() == WL_CONNECTED;
\* joining, an association was requested; avail, the access point is in
\* reach; events, the link events not yet handed to onWiFiEvent.
WifiOff == [link |-> FALSE, joining |-> FALSE, avail |-> FALSE, events |-> <<>>]

\* connect() is not running.
ConnIdle == [pc |-> "idle", startTime |-> 0, timeout |-> 0]

\* One step of the supervisor: the operation, its argument and result, the
\* WiFi calls it made and the statuses it passed to _callback.
NetOp(name, arg, ret, calls, notes) ==
    [op |-> name, arg |-> arg, ret |-> ret, calls |-> calls, notes |-> notes]

\* No update attempt has failed. Of the attempts: failures, how many in a row
\* ended in Error; phase, "error" while the engine is in the Error a failure
\* left, "aborted" once abortUpdate has taken it out of that Error.
NoRetry == [failures |-> 0, phase |-> "none"]

\* No updateStatus call is in progress: conn and evt are the steps of the
\* calls made by connect() after its loop and by the event task ("none",
\* "set": the test passed and the assignment is next, "notify": the callback
\* is next), connTo and evtTo the statuses they pass; inPoll, the event task
\* was handed a got-address event while connect() was in its loop; log, the
\* statuses notified since connect() was called.
RaceIdle == [conn |-> "none", connTo |-> 0, evt |-> "none", evtTo |-> 0,
             inPoll |-> FALSE, log |-> <<>>]

\* No request is being served. Of a POST to the update path: phase, "upload"
\* while its body is parsed, "parsed" once the body has ended, "answered"
\* once the request handler has run; secured, a user name is configured
\* (_config.username is not empty); auth, the credentials the request
\* carries are the configured ones; done, finishUpdate returned true for it;
\* replies, the response codes sent for it, in order.
NoRequest == [phase |-> "none", secured |-> FALSE, auth |-> FALSE,
              done |-> FALSE, replies |-> <<>>]

\* ElegantOTACompat's static member definitions (init: _initialized, "core"
\* while begin() is between OTACore::begin and OTACore::setCallback;
\* external: _useExternalServer) and, of the upload it last saw: phase
\* ("idle": none yet, "uploading", "ended"), n, its chunk events; startOk,
\* startUpdate returned true for it; done, finishUpdate did; starts and
\* ends, the number of times _onStartCallback and _onEndCallback ran for it.
NoCompat == [init |-> "no", external |-> FALSE, phase |-> "idle", n |-> 0,
             startOk |-> FALSE, done |-> FALSE, starts |-> 0, ends |-> 0]

\* Initial values of what the layers and schedules follow.
AuxInit ==
    /\ race = RaceIdle
    /\ req = NoRequest
    /\ compat = NoCompat
    /\ reboots = 0

\* Static initialisers outside the engine.
EnvInit ==
    /\ flip = NoFlip
    /\ retry = NoRetry
    /\ AuxInit
    /\ uploadSize = 0
    /\ uploadReceived = 0
    /\ http = HttpIdle
    /\ nm = NmStatic
    /\ wifi = WifiOff
    /\ now = 0
    /\ conn = ConnIdle
    /\ netOp = NetOp("boot", 0, 0, <<>>, <<>>)
    /\ noted = -1
    /\ attemptLog = <<>>

\* ------------------------------------------------------------------ Init
\* OTACore's static member definitions.
EngineInit ==
    /\ running = TRUE
    /\ status = IDLE
    /\ progress = 0
    /\ lastError = NoError
    /\ callback = FALSE
    /\ persistent = FALSE
    /\ rtcData = ZeroRTC
    /\ rtc_ota_data = ZeroRTC
    /\ begun = FALSE
    /\ upd = UpdClosed
    /\ last = Op("boot", 0, 0, <<>>)

Init == EngineInit /\ EnvInit

\* --------------------------------------------------------------- actions
\* OTACore::begin(enablePersistence)
Begin(enablePersistence) ==
    /\ running
    /\ persistent' = enablePersistence
    /\ lastError' = NoError
    /\ IF enablePersistence
       THEN IF ValidRecord(rtc_ota_data)
            THEN /\ rtcData' = rtc_ota_data
                 /\ status' = rtc_ota_data.status
                 /\ progress' = rtc_ota_data.progress
                 /\ UNCHANGED rtc_ota_data
            ELSE LET fresh == [rtc_ota_data EXCEPT !.magic = RTC_MAGIC,
                                                   !.otaEnabled = B2I(TRUE),
                                                   !.status = IDLE,
                                                   !.progress = 0]
                     saved == saveToRTC(TRUE, fresh, rtc_ota_data)
                 IN /\ rtcData' = saved[1]
                    /\ rtc_ota_data' = saved[2]
                    /\ status' = IDLE
                    /\ progress' = 0
       ELSE /\ status' = IDLE
            /\ progress' = 0
            /\ UNCHANGED <<rtcData, rtc_ota_data>>
    /\ begun' = TRUE
    /\ last' = Op("begin", B2I(enablePersistence), B2I(TRUE),
                  <<Call("Update.onProgress", 0)>>)
    /\ UNCHANGED <<running, callback, upd>>

\* OTACore::setCallback(callback)
SetCallback(set) ==
    /\ running /\ begun
    /\ callback' = set
    /\ last' = Op("setCallback", B2I(set), 0, <<>>)
    /\ UNCHANGED <<running, status, progress, lastError, persistent,
                   rtcData, rtc_ota_data, begun, upd>>

\* Mutant: the division is made before the multiplication.
Percent_DivideFirst(done, total) == (done \div total) * 100

\* The lambda's int percent = (progress * 100) / total
Percent(done, total) == (done * 100) \div total

\* The Update.onProgress lambda of OTACore::begin, run by the platform when it
\* reports (`done` bytes written of `total`): the new _progress and the
\* notification made. Nothing happens when the platform makes no report
\* (it may batch).
onProgress(report, done, total, pg, rtc) ==
    IF report
    THEN LET percent == Percent(done, total)
         IN [progress |-> percent,
             events |-> updateCallback(RECEIVING, percent, status, percent, rtc)]
    ELSE [progress |-> pg, events |-> <<>>]

\* OTACore::startUpdate(size, md5); platformOk is the result of Update.begin.
StartUpdate(size, md5, platformOk) ==
    /\ running /\ begun
    /\ IF ~CanStart(status)
       THEN /\ lastError' = ErrAlreadyInProgress
            /\ last' = Op("startUpdate", size, B2I(FALSE), <<>>)
            /\ UNCHANGED <<status, progress, rtcData, rtc_ota_data, upd>>
       ELSE IF InvalidSize(size)
       THEN /\ lastError' = ErrInvalidSize
            /\ last' = Op("startUpdate", size, B2I(FALSE), <<>>)
            /\ UNCHANGED <<status, progress, rtcData, rtc_ota_data, upd>>
       ELSE IF SizeTooLarge(size)
       THEN /\ lastError' = ErrInsufficientSpace
            /\ last' = Op("startUpdate", size, B2I(FALSE), <<>>)
            /\ UNCHANGED <<status, progress, rtcData, rtc_ota_data, upd>>
       ELSE IF ~platformOk
       THEN /\ lastError' = ErrStartFailed
            /\ status' = ERROR
            /\ last' = Op("startUpdate", size, B2I(FALSE),
                          <<Call("Update.begin", B2I(FALSE))>>
                          \o updateCallback(ERROR, 0, ERROR, progress, rtc_ota_data))
            /\ UNCHANGED <<progress, rtcData, rtc_ota_data, upd>>
       ELSE LET saved == IF persistent
                         THEN saveToRTC(persistent,
                                        [rtcData EXCEPT !.status = RECEIVING,
                                                        !.progress = 0],
                                        rtc_ota_data)
                         ELSE <<rtcData, rtc_ota_data>>
            IN /\ upd' = [open |-> TRUE, size |-> size, written |-> 0,
                             chunks |-> <<>>]
               /\ status' = RECEIVING
               /\ progress' = 0
               /\ lastError' = NoError
               /\ rtcData' = saved[1]
               /\ rtc_ota_data' = saved[2]
               /\ last' = Op("startUpdate", size, B2I(TRUE),
                             <<Call("Update.begin", B2I(TRUE))>>
                             \o (IF md5 THEN <<Call("Update.setMD5", 0)>> ELSE <<>>)
                             \o updateCallback(RECEIVING, 0, RECEIVING, 0, saved[2]))
    /\ UNCHANGED <<running, callback, persistent, begun>>

\* OTACore::writeData(data, len); hasData is data != nullptr, accept is whether
\* the platform takes the chunk (Update.write returns len), report whether the
\* platform runs its progress callback while writing.
WriteData(hasData, len, accept, report) ==
    /\ running /\ begun
    /\ IF ~CanWrite(status)
       THEN /\ lastError' = ErrNotReceiving
            /\ last' = Op("writeData", len, -1, <<>>)
            /\ UNCHANGED <<status, progress, rtcData, rtc_ota_data, upd>>
       ELSE IF ~hasData \/ len = 0
       THEN /\ lastError' = ErrInvalidBuffer
            /\ last' = Op("writeData", len, -1, <<>>)
            /\ UNCHANGED <<status, progress, rtcData, rtc_ota_data, upd>>
       ELSE IF ~(accept /\ upd.open /\ upd.written + len <= upd.size)
       THEN /\ lastError' = ErrWriteFailed
            /\ status' = ERROR
            /\ last' = Op("writeData", len, -1,
                          <<Call("Update.write", 0)>>
                          \o updateCallback(ERROR, progress, ERROR, progress,
                                            rtc_ota_data))
            /\ UNCHANGED <<progress, rtcData, rtc_ota_data, upd>>
       ELSE LET written == upd.written + len
                cb == onProgress(report, written, upd.size, progress, rtc_ota_data)
                saved == IF persistent
                         THEN saveToRTC(persistent,
                                        [rtcData EXCEPT !.progress = cb.progress],
                                        rtc_ota_data)
                         ELSE <<rtcData, rtc_ota_data>>
            IN /\ upd' = [upd EXCEPT !.written = written, !.chunks = Append(@, len)]
               /\ progress' = cb.progress
               /\ rtcData' = saved[1]
               /\ rtc_ota_data' = saved[2]
               /\ last' = Op("writeData", len, len,
                             <<Call("Update.write", len)>> \o cb.events)
               /\ UNCHANGED <<status, lastError>>
    /\ UNCHANGED <<running, callback, persistent, begun>>

\* OTACore::finishUpdate(); commitOk is the result of Update.end(true), report
\* whether the platform runs its progress callback while flushing its buffer.
FinishUpdate(commitOk, report) ==
    /\ running /\ begun
    /\ IF ~CanFinish(status)
       THEN /\ lastError' = ErrNotReceiving
            /\ last' = Op("finishUpdate", upd, B2I(FALSE), <<>>)
            /\ UNCHANGED <<status, progress, rtcData, rtc_ota_data, upd>>
       ELSE LET cb == onProgress(report /\ upd.open /\ upd.written > 0,
                                 upd.written, upd.size, progress, rtc_ota_data)
            IN IF ~(commitOk /\ upd.open)
               THEN /\ lastError' = ErrCommitFailed
                    /\ status' = ERROR
                    /\ progress' = cb.progress
                    /\ last' = Op("finishUpdate", upd, B2I(FALSE),
                                  <<Call("Update.end", B2I(FALSE))>> \o cb.events
                                  \o updateCallback(ERROR, cb.progress, ERROR,
                                                    cb.progress, rtc_ota_data))
                    /\ UNCHANGED <<rtcData, rtc_ota_data, upd>>
               ELSE LET done == CommittedProgress(cb.progress)
                        saved == IF persistent
                                 THEN saveToRTC(persistent,
                                                [rtcData EXCEPT !.status = COMPLETE,
                                                                !.progress = done],
                                                rtc_ota_data)
                                 ELSE <<rtcData, rtc_ota_data>>
                    IN /\ status' = COMPLETE
                       /\ progress' = done
                       /\ upd' = UpdClosed
                       /\ rtcData' = saved[1]
                       /\ rtc_ota_data' = saved[2]
                       /\ last' = Op("finishUpdate", upd, B2I(TRUE),
                                     <<Call("Update.end", B2I(TRUE))>> \o cb.events
                                     \o updateCallback(COMPLETE, done, COMPLETE, done,
                                                       saved[2]))
                       /\ UNCHANGED lastError
    /\ UNCHANGED <<running, callback, persistent, begun>>

\* OTACore::abortUpdate()
AbortUpdate ==
    /\ running /\ begun
    /\ LET st == AbortedStatus(status)
           pg == AbortedProgress(progress)
           saved == IF persistent
                    THEN saveToRTC(persistent,
                                   [rtcData EXCEPT !.status = st, !.progress = pg],
                                   rtc_ota_data)
                    ELSE <<rtcData, rtc_ota_data>>
       IN /\ upd' = IF status = RECEIVING THEN UpdClosed ELSE upd
          /\ status' = st
          /\ progress' = pg
          /\ lastError' = ErrAborted
          /\ rtcData' = saved[1]
          /\ rtc_ota_data' = saved[2]
          /\ last' = Op("abortUpdate", upd, 0,
                        (IF status = RECEIVING THEN <<Call("Update.abort", 0)>> ELSE <<>>)
                        \o updateCallback(st, pg, st, pg, saved[2]))
    /\ UNCHANGED <<running, callback, persistent, begun>>

\* OTACore::handle(): the background tick. OTACore::restart() does not return.
Handle ==
    /\ running /\ begun
    /\ IF ShouldReboot(status)
       THEN /\ status' = REBOOTING
            /\ running' = FALSE
            /\ last' = Op("handle", 0, 0,
                          updateCallback(REBOOTING, 100, REBOOTING, progress,
                                         rtc_ota_data)
                          \o <<Call("ESP.restart", 0)>>)
       ELSE /\ last' = Op("handle", 0, 0, <<>>)
            /\ UNCHANGED <<status, running>>
    /\ UNCHANGED <<progress, lastError, callback, persistent, rtcData,
                   rtc_ota_data, begun, upd>>

\* OTACore::setPersistence(enable)
SetPersistence(enable) ==
    /\ running /\ begun
    /\ persistent' = enable
    /\ LET saved == saveToRTC(enable, rtcData, rtc_ota_data)
       IN /\ rtcData' = saved[1]
          /\ rtc_ota_data' = saved[2]
    /\ last' = Op("setPersistence", B2I(enable), 0, <<>>)
    /\ UNCHANGED <<running, status, progress, lastError, callback,
                   begun, upd>>

\* A device reset (ESP.restart(), watchdog, brown-out): the statics get their
\* initial values again; the RTC record survives the reset or is cleared by
\* the boot code, depending on the kind of reset.
Reset(survive) ==
    /\ running' = TRUE
    /\ status' = IDLE
    /\ progress' = 0
    /\ lastError' = NoError
    /\ callback' = FALSE
    /\ persistent' = FALSE
    /\ rtcData' = ZeroRTC
    /\ rtc_ota_data' = IF survive THEN rtc_ota_data ELSE ZeroRTC
    /\ begun' = FALSE
    /\ upd' = UpdClosed
    /\ last' = Op("reset", B2I(survive), 0, <<>>)

\* Sizes a caller may declare: none, every size that fits, one that does not.
Sizes == 0 .. (MaxPartition + 1)

\* Chunk lengths a caller may deliver.
Lens == 0 .. MaxPartition

\* The engine driven directly by its caller.
Next ==
    \/ \E p \in BOOLEAN : Begin(p) /\ UNCHANGED envVars
    \/ \E s \in BOOLEAN : SetCallback(s) /\ UNCHANGED envVars
    \/ \E size \in Sizes, md5 \in BOOLEAN, ok \in BOOLEAN :
          StartUpdate(size, md5, ok) /\ UNCHANGED envVars
    \/ \E d \in BOOLEAN, len \in Lens, a \in BOOLEAN, rep \in BOOLEAN :
          WriteData(d, len, a, rep) /\ UNCHANGED envVars
    \/ \E ok \in BOOLEAN, rep \in BOOLEAN :
          FinishUpdate(ok, rep) /\ UNCHANGED envVars
    \/ AbortUpdate /\ UNCHANGED envVars
    \/ Handle /\ UNCHANGED envVars
    \/ \E e \in BOOLEAN : SetPersistence(e) /\ UNCHANGED envVars
    \/ \E s \in BOOLEAN : Reset(s) /\ UNCHANGED envVars

Spec == Init /\ [][Next]_vars

\* ------------------------------------------------------ upload ingestion
\* Mutant: the count is set to the size of the chunk.
Received_Overwritten(received, len) == len

\* UPLOAD_FILE_WRITE: _uploadReceived += upload.currentSize
Received(received, len) == received + len

\* The upload handler of OTAWebServer::setupRoutes on UPLOAD_FILE_START with
\* upload.totalSize = total (platformOk: what Update.begin will answer).
UploadStart(total, platformOk) ==
    /\ http.phase = "idle"
    /\ StartUpdate(total, FALSE, platformOk)
    /\ uploadSize' = total
    /\ uploadReceived' = 0
    /\ http' = [phase |-> "uploading", startOk |-> (last'.ret = 1),
                rejected |-> FALSE, delivered |-> 0, n |-> 0,
                call |-> "startUpdate",
                sent |-> IF last'.ret = 1 THEN 0 ELSE 500,
                event |-> "none", value |-> 0]
    /\ UNCHANGED <<flip, retry, netVars>>

\* What an unsigned division by zero leaves in int progress when the build
\* divides in software and does not trap: no bit set, or every bit.
DivZeroValues == {0, -1}

\* UPLOAD_FILE_WRITE: int progress = (_uploadReceived * 100) / _uploadSize,
\* reached when the chunk was taken whole. The outcomes: the value computed;
\* for _uploadSize = 0 the behaviour is undefined, the divide instruction of
\* the target raises an exception or a value is left.
UploadProgress(taken, received, size) ==
    IF ~taken THEN {[event |-> "none", value |-> 0]}
    ELSE IF size # 0
    THEN {[event |-> "progress", value |-> (received * 100) \div size]}
    ELSE {[event |-> "trap", value |-> 0]}
         \cup {[event |-> "progress", value |-> v] : v \in DivZeroValues}

\* The handler on UPLOAD_FILE_WRITE with upload.currentSize = len.
UploadWrite(len, accept, report) ==
    /\ http.phase = "uploading"
    /\ http.n < MaxChunks
    /\ WriteData(TRUE, len, accept, report)
    /\ uploadReceived' = Received(uploadReceived, len)
    /\ \E out \in UploadProgress(last'.ret = len,
                                  Received(uploadReceived, len), uploadSize) :
          http' = [http EXCEPT !.rejected = @ \/ (last'.ret # len),
                               !.delivered = @ + len,
                               !.n = @ + 1,
                               !.call = "writeData",
                               !.sent = IF last'.ret # len THEN 500 ELSE 0,
                               !.event = out.event,
                               !.value = out.value]
    /\ UNCHANGED <<flip, retry, uploadSize, netVars>>

\* The handler on UPLOAD_FILE_END.
UploadEnd(commitOk, report) ==
    /\ http.phase = "uploading"
    /\ FinishUpdate(commitOk, report)
    /\ http' = [http EXCEPT !.phase = "idle", !.call = "finishUpdate", !.sent = 0,
                            !.event = "none", !.value = 0]
    /\ UNCHANGED <<flip, retry, uploadSize, uploadReceived, netVars>>

\* UPLOAD_FILE_ABORTED (the client went away): no branch of the handler
\* takes it.
UploadAborted ==
    /\ running /\ begun
    /\ http.phase = "uploading"
    /\ http' = [http EXCEPT !.phase = "idle", !.call = "none", !.sent = 0,
                            !.event = "none", !.value = 0]
    /\ UNCHANGED <<engineVars, flip, retry, uploadSize, uploadReceived, netVars>>

\* A device reset also re-initialises the adapter and drops the request.
ResetAll(survive) ==
    /\ Reset(survive)
    /\ uploadSize' = 0
    /\ uploadReceived' = 0
    /\ http' = HttpIdle
    /\ UNCHANGED <<flip, retry, netVars>>

\* The firmware with its web server: begin() at boot, then the main loop
\* ticking the engine and serving upload requests.
NextUpload ==
    \/ \E p \in BOOLEAN : ~begun /\ Begin(p) /\ UNCHANGED envVars
    \/ \E s \in BOOLEAN : SetCallback(s) /\ UNCHANGED envVars
    \/ \E total \in Sizes, ok \in BOOLEAN :
          UploadStart(total, ok) /\ UNCHANGED auxVars
    \/ \E len \in Lens, a \in BOOLEAN, rep \in BOOLEAN :
          UploadWrite(len, a, rep) /\ UNCHANGED auxVars
    \/ \E ok \in BOOLEAN, rep \in BOOLEAN : UploadEnd(ok, rep) /\ UNCHANGED auxVars
    \/ UploadAborted /\ UNCHANGED auxVars
    \/ AbortUpdate /\ UNCHANGED envVars
    \/ Handle /\ UNCHANGED envVars
    \/ \E s \in BOOLEAN : ResetAll(s) /\ UNCHANGED auxVars

SpecUpload == Init /\ [][NextUpload]_vars

\* ----------------------------------------------- attempts after failures
\* What a step of the engine makes of the attempts so far: a step into Error
\* is one more failure, abortUpdate out of that Error is remembered until the
\* next start, a completed update ends the row of failures.
Track ==
    IF status' = ERROR /\ status # ERROR
    THEN [failures |-> retry.failures + 1, phase |-> "error"]
    ELSE IF last'.op = "abortUpdate" /\ retry.phase = "error"
    THEN [retry EXCEPT !.phase = "aborted"]
    ELSE IF status' = COMPLETE /\ status # COMPLETE
    THEN NoRetry
    ELSE IF status' = RECEIVING /\ status # RECEIVING
    THEN [retry EXCEPT !.phase = "none"]
    ELSE retry

\* The attempts are followed up to MaxFailures failures in a row.
Tracked ==
    /\ retry' = Track
    /\ retry'.failures <= MaxFailures
    /\ UNCHANGED <<flip, uploadVars, netVars, auxVars>>

\* The engine driven through update attempts: begin() at boot, then starts,
\* chunks, commits and aborts in any order.
NextRetry ==
    \/ \E p \in BOOLEAN : ~begun /\ Begin(p) /\ Tracked
    \/ \E s \in BOOLEAN : SetCallback(s) /\ Tracked
    \/ \E size \in Sizes, ok \in BOOLEAN : StartUpdate(size, FALSE, ok) /\ Tracked
    \/ \E len \in Lens, a \in BOOLEAN, rep \in BOOLEAN :
          WriteData(TRUE, len, a, rep) /\ Tracked
    \/ \E ok \in BOOLEAN, rep \in BOOLEAN : FinishUpdate(ok, rep) /\ Tracked
    \/ AbortUpdate /\ Tracked

SpecRetry == Init /\ [][NextRetry]_vars

\* ------------------------------------------- the record under corruption
\* _progress is a percentage.
ProgressValues == 0 .. 100

\* The record as saveToRTC leaves it for a status and a progress.
SavedRecord(st, pg) ==
    saveToRTC(TRUE, [magic |-> RTC_MAGIC, otaEnabled |-> B2I(TRUE),
                     status |-> st, progress |-> pg, crc |-> U32(0)],
              ZeroRTC)[2]

\* What RTC memory can hold when the firmware boots: nothing, or a record
\* that an earlier run saved.
BootRecords ==
    {ZeroRTC} \cup {SavedRecord(st, pg) : st \in StatusValues, pg \in ProgressValues}

InitFlip ==
    /\ running = TRUE
    /\ status = IDLE
    /\ progress = 0
    /\ lastError = NoError
    /\ callback = FALSE
    /\ persistent = FALSE
    /\ rtcData = ZeroRTC
    /\ rtc_ota_data \in BootRecords
    /\ begun = FALSE
    /\ upd = UpdClosed
    /\ last = Op("boot", 0, 0, <<>>)
    /\ EnvInit

\* A fault inverts bit k of field f of a saved record while the device is
\* down (RTC memory is all that is powered).
Corrupt(f, k) ==
    /\ ~begun
    /\ flip = NoFlip
    /\ ValidRecord(rtc_ota_data)
    /\ k < FieldBits(f)
    /\ rtc_ota_data' = FlipField(rtc_ota_data, f, k)
    /\ flip' = [field |-> f, bit |-> k]
    /\ UNCHANGED <<running, status, progress, lastError, callback, persistent,
                   rtcData, begun, upd, last>>
    /\ UNCHANGED <<retry, uploadVars, netVars, auxVars>>

\* The firmware boots on the record it finds and begin() loads it.
NextFlip ==
    \/ \E f \in Fields, k \in 0 .. 31 : Corrupt(f, k)
    \/ \E p \in BOOLEAN : ~begun /\ Begin(p) /\ UNCHANGED envVars

SpecFlip == InitFlip /\ [][NextFlip]_vars

\* ------------------------------------------------ connectivity supervisor
\* millis() - since on unsigned long.
Elapsed(since) == (now - since) % ClockMod

\* Mutant: every call of updateStatus counts as a change.
Changed_Always(old, new) == TRUE

\* updateStatus: if (_status != newStatus)
Changed(old, new) == old # new

\* NetworkManager::updateStatus(newStatus): the members after the call.
updateStatus(n, newStatus) ==
    IF Changed(n.status, newStatus) THEN [n EXCEPT !.status = newStatus] ELSE n

\* NetworkManager::updateStatus(newStatus): the calls of _callback it makes.
Notes(n, newStatus) ==
    IF Changed(n.status, newStatus) /\ n.callback THEN <<newStatus>> ELSE <<>>

\* The status last notified after a step that made the notifications notes.
Noted(notes) == IF notes = <<>> THEN noted ELSE notes[Len(notes)]

\* Mutant: the status alone decides, the link is tested for being down.
isConnected_LinkDown == ~wifi.link /\ nm.status = CONNECTED

\* NetworkManager::isConnected
isConnected == wifi.link /\ nm.status = CONNECTED

\* WiFi.begin(ssid, password): the station starts to associate.
WiFiBegin(w) == [w EXCEPT !.joining = TRUE]

\* WiFi.disconnect(): the station leaves the access point; a link that was
\* up goes down and the platform reports it.
WiFiDisconnect(w) ==
    [w EXCEPT !.link = FALSE, !.joining = FALSE,
              !.events = IF w.link THEN Append(@, "DISCONNECTED") ELSE @]

\* The event queue can take the event a WiFi.disconnect() may cause.
CanQueue == Len(wifi.events) < MaxEvents

\* Mutant: the attempt counter is never reset by the tick.
CooldownOver_Never(elapsed, interval) == FALSE

\* Mutant: the wait is five intervals.
CooldownOver_FiveIntervals(elapsed, interval) == elapsed >= (interval * 5) % ClockMod

\* handle: if (currentTime - _lastReconnectAttempt >= (_reconnectInterval * 10))
CooldownOver(elapsed, interval) == elapsed >= (interval * 10) % ClockMod

\* Mutant: the next attempt is due at once.
AttemptDue_AtOnce(elapsed, interval) == TRUE

\* handle: if (currentTime - _lastReconnectAttempt >= _reconnectInterval)
AttemptDue(elapsed, interval) == elapsed >= interval

\* connect: updateStatus(Status::FAILED, ...) when the link is not up.
FailedStatus == FAILED

\* NetworkManager::connect(timeout) up to the polling loop; a call made in
\* Connected returns true at once.
NetConnect(timeout) ==
    /\ conn.pc = "idle"
    /\ IF nm.status = CONNECTED
       THEN /\ netOp' = NetOp("connect", timeout, 1, <<>>, <<>>)
            /\ UNCHANGED <<nm, wifi, conn, noted>>
       ELSE /\ nm' = updateStatus(nm, CONNECTING)
            /\ wifi' = WiFiBegin(wifi)
            /\ conn' = [pc |-> "poll", startTime |-> now, timeout |-> timeout]
            /\ netOp' = NetOp("connect.start", timeout, 0, <<"WiFi.begin">>,
                              Notes(nm, CONNECTING))
            /\ noted' = Noted(Notes(nm, CONNECTING))
    /\ UNCHANGED <<now>>

\* One evaluation of connect's loop condition: delay(100) and stay in the
\* loop, or leave it.
ConnectPoll ==
    /\ conn.pc = "poll"
    /\ IF ~wifi.link /\ Elapsed(conn.startTime) < conn.timeout
       THEN conn' = conn
       ELSE conn' = [conn EXCEPT !.pc = "check"]
    /\ netOp' = NetOp("connect.poll", conn.timeout, 0, <<>>, <<>>)
    /\ UNCHANGED <<nm, wifi, now, noted>>

\* connect after the loop: if (WiFi.status() == WL_CONNECTED) ... else ...
ConnectReturn ==
    /\ conn.pc = "check"
    /\ IF wifi.link
       THEN /\ nm' = [updateStatus(nm, CONNECTED) EXCEPT !.reconnectAttempts = 0]
            /\ netOp' = NetOp("connect", conn.timeout, 1, <<>>, Notes(nm, CONNECTED))
            /\ noted' = Noted(Notes(nm, CONNECTED))
       ELSE /\ nm' = updateStatus(nm, FailedStatus)
            /\ netOp' = NetOp("connect", conn.timeout, 0, <<>>, Notes(nm, FailedStatus))
            /\ noted' = Noted(Notes(nm, FailedStatus))
    /\ conn' = ConnIdle
    /\ UNCHANGED <<wifi, now>>

\* NetworkManager::disconnect
NetDisconnect ==
    /\ conn.pc = "idle"
    /\ CanQueue
    /\ wifi' = WiFiDisconnect(wifi)
    /\ nm' = updateStatus(nm, DISCONNECTED)
    /\ netOp' = NetOp("disconnect", 0, 0, <<"WiFi.disconnect">>,
                      Notes(nm, DISCONNECTED))
    /\ noted' = Noted(Notes(nm, DISCONNECTED))
    /\ UNCHANGED <<now, conn>>

\* Mutant: the time of the attempt is not recorded.
attemptReconnect_NoStamp ==
    /\ nm' = [updateStatus(nm, RECONNECTING) EXCEPT !.reconnectAttempts = @ + 1]
    /\ wifi' = WiFiBegin(WiFiDisconnect(wifi))
    /\ netOp' = NetOp("handle", 0, 0, <<"WiFi.disconnect", "WiFi.begin">>,
                      Notes(nm, RECONNECTING))
    /\ noted' = Noted(Notes(nm, RECONNECTING))

\* NetworkManager::attemptReconnect, called by handle.
attemptReconnect ==
    /\ nm' = [updateStatus(nm, RECONNECTING) EXCEPT
                 !.reconnectAttempts = @ + 1,
                 !.lastReconnectAttempt = now]
    /\ wifi' = WiFiBegin(WiFiDisconnect(wifi))
    /\ netOp' = NetOp("handle", 0, 0, <<"WiFi.disconnect", "WiFi.begin">>,
                      Notes(nm, RECONNECTING))
    /\ noted' = Noted(Notes(nm, RECONNECTING))

\* NetworkManager::handle (the supervisor tick)
NetHandle ==
    /\ conn.pc = "idle"
    /\ CanQueue
    /\ IF /\ nm.autoReconnect /\ ~isConnected /\ nm.status # CONNECTING
          /\ AttemptDue(Elapsed(nm.lastReconnectAttempt), nm.reconnectInterval)
       THEN IF nm.reconnectAttempts < MAX_RECONNECT_ATTEMPTS
            THEN attemptReconnect
            ELSE /\ nm' = IF CooldownOver(Elapsed(nm.lastReconnectAttempt),
                                          nm.reconnectInterval)
                          THEN [nm EXCEPT !.reconnectAttempts = 0]
                          ELSE nm
                 /\ netOp' = NetOp("handle", 0, 0, <<>>, <<>>)
                 /\ UNCHANGED <<wifi, noted>>
       ELSE /\ netOp' = NetOp("handle", 0, 0, <<>>, <<>>)
            /\ UNCHANGED <<nm, wifi, noted>>
    /\ UNCHANGED <<now, conn>>

\* NetworkManager::onWiFiEvent, run by the event task on the oldest pending
\* event; it can run while connect() is polling.
onWiFiEvent ==
    /\ wifi.events # <<>>
    /\ LET ev == Head(wifi.events)
           to == IF ev = "GOT_IP" THEN CONNECTED
                 ELSE IF nm.status = CONNECTED THEN DISCONNECTED
                 ELSE nm.status
       IN /\ nm' = updateStatus(nm, to)
          /\ netOp' = NetOp("onWiFiEvent", B2I(ev = "GOT_IP"), 0, <<>>, Notes(nm, to))
          /\ noted' = Noted(Notes(nm, to))
    /\ wifi' = [wifi EXCEPT !.events = Tail(@)]
    /\ UNCHANGED <<now, conn>>

\* The station that was asked to associate gets its address.
LinkUp ==
    /\ wifi.joining /\ wifi.avail /\ ~wifi.link
    /\ CanQueue
    /\ wifi' = [wifi EXCEPT !.link = TRUE, !.events = Append(@, "GOT_IP")]
    /\ netOp' = NetOp("linkUp", 0, 0, <<>>, <<>>)
    /\ UNCHANGED <<nm, now, conn, noted>>

\* The link is lost.
LinkDown ==
    /\ wifi.link
    /\ CanQueue
    /\ wifi' = [wifi EXCEPT !.link = FALSE, !.events = Append(@, "DISCONNECTED")]
    /\ netOp' = NetOp("linkDown", 0, 0, <<>>, <<>>)
    /\ UNCHANGED <<nm, now, conn, noted>>

\* The access point comes into reach, for good.
ApAppears ==
    /\ ~wifi.avail
    /\ wifi' = [wifi EXCEPT !.avail = TRUE]
    /\ netOp' = NetOp("apAppears", 0, 0, <<>>, <<>>)
    /\ UNCHANGED <<nm, now, conn, noted>>

\* One time unit passes.
TimePasses ==
    /\ now' = (now + 1) % ClockMod
    /\ netOp' = NetOp("time", 0, 0, <<>>, <<>>)
    /\ UNCHANGED <<nm, wifi, conn, noted>>

\* What is not the supervisor's.
notNetVars == <<engineVars, flip, retry, uploadVars, auxVars>>

\* The same with the record of attempt times, which the runs that exercise
\* every operation do not keep.
notNetOps == <<notNetVars, attemptLog>>

\* connect() timeouts and reconnect intervals tried with every operation.
Timeouts == 0 .. MaxTimeout

NetIntervals == 0 .. 1

\* After NetworkManager::begin(ssid, password, autoReconnect), setCallback
\* and setReconnectInterval, the access point being in reach.
InitNet ==
    /\ EngineInit
    /\ flip = NoFlip
    /\ retry = NoRetry
    /\ AuxInit
    /\ uploadSize = 0
    /\ uploadReceived = 0
    /\ http = HttpIdle
    /\ nm \in {[NmStatic EXCEPT !.autoReconnect = a, !.reconnectInterval = t,
                                !.callback = TRUE] :
                a \in BOOLEAN, t \in NetIntervals}
    /\ wifi = [WifiOff EXCEPT !.avail = TRUE]
    /\ now = 0
    /\ conn = ConnIdle
    /\ netOp = NetOp("begin", 0, 1, <<>>, <<>>)
    /\ noted = -1
    /\ attemptLog = <<>>

\* The supervisor under every order of its operations, link changes, link
\* events and clock advances.
NextNet ==
    \/ \E t \in Timeouts : NetConnect(t) /\ UNCHANGED notNetOps
    \/ ConnectPoll /\ UNCHANGED notNetOps
    \/ ConnectReturn /\ UNCHANGED notNetOps
    \/ NetDisconnect /\ UNCHANGED notNetOps
    \/ NetHandle /\ UNCHANGED notNetOps
    \/ onWiFiEvent /\ UNCHANGED notNetOps
    \/ LinkUp /\ UNCHANGED notNetOps
    \/ LinkDown /\ UNCHANGED notNetOps
    \/ now < MaxTime /\ TimePasses /\ UNCHANGED notNetOps

SpecNet == InitNet /\ [][NextNet]_vars

\* ------------------------------------------------ the reconnect schedule
\* Reconnect intervals tried.
Intervals == 1 .. MaxInterval

\* The supervisor with auto-reconnect on and the link down: after begin()
\* alone (Disconnected, no association requested) or after a connect() that
\* timed out (Failed), the access point being out of reach.
InitReconnect ==
    /\ EngineInit
    /\ flip = NoFlip
    /\ retry = NoRetry
    /\ AuxInit
    /\ uploadSize = 0
    /\ uploadReceived = 0
    /\ http = HttpIdle
    /\ \E t \in Intervals, failed \in BOOLEAN :
          /\ nm = [NmStatic EXCEPT !.autoReconnect = TRUE,
                                   !.reconnectInterval = t,
                                   !.callback = TRUE,
                                   !.status = IF failed THEN FAILED ELSE DISCONNECTED]
          /\ wifi = [WifiOff EXCEPT !.joining = failed]
          /\ noted = IF failed THEN FAILED ELSE -1
    /\ now \in 0 .. MaxTimeout
    /\ conn = ConnIdle
    /\ netOp = NetOp("begin", 0, 1, <<>>, <<>>)
    /\ attemptLog = <<>>

\* The tick, with the time of the attempt it issues recorded.
Tick ==
    /\ NetHandle
    /\ attemptLog' = IF /\ netOp'.calls = <<"WiFi.disconnect", "WiFi.begin">>
                        /\ Len(attemptLog) < MaxLog
                     THEN Append(attemptLog, now)
                     ELSE attemptLog
    /\ UNCHANGED notNetVars

\* The main loop calls handle() far more often than once per time unit: the
\* clock advances only past a time at which a tick has run.
TimePassesAfterTick ==
    /\ netOp.op = "handle"
    /\ TimePasses
    /\ UNCHANGED notNetOps

\* The access point stays out of reach: ticks and the clock.
NextReconnect ==
    \/ Tick
    \/ TimePassesAfterTick

SpecReconnect == InitReconnect /\ [][NextReconnect]_vars

\* The access point may come into reach; the link once up stays up unless
\* the supervisor itself disconnects.
NextRecover ==
    \/ NetHandle /\ UNCHANGED notNetOps
    \/ TimePassesAfterTick
    \/ ApAppears /\ UNCHANGED notNetOps
    \/ LinkUp /\ UNCHANGED notNetOps
    \/ onWiFiEvent /\ UNCHANGED notNetOps

\* The main loop keeps ticking, the clock keeps advancing, the station that
\* can associate does, and the event task handles what is queued.
SpecRecoverFair ==
    /\ InitReconnect
    /\ [][NextRecover]_vars
    /\ WF_vars(NetHandle /\ UNCHANGED notNetOps)
    /\ WF_vars(TimePassesAfterTick)
    /\ WF_vars(LinkUp /\ UNCHANGED notNetOps)
    /\ WF_vars(onWiFiEvent /\ UNCHANGED notNetOps)

\* ============================================================ properties
\* The operation record `ev` holds a call of kind k.
HasCall(ev, k) == \E i \in DOMAIN ev : ev[i].k = k

\* The operation record `ev` holds a call of kind k that returned res.
HasCallRes(ev, k, res) == \E i \in DOMAIN ev : ev[i].k = k /\ ev[i].res = res

\* The status callback was invoked with status st during the operation.
Notified(ev, st) == \E i \in DOMAIN ev : ev[i].k = "cb" /\ ev[i].st = st

RECURSIVE SumSeq(_)
SumSeq(q) == IF q = <<>> THEN 0 ELSE Head(q) + SumSeq(Tail(q))

\* C1: startUpdate called in Idle with 0 < size <= availableSize() passes the
\* engine's own checks and opens the platform session; its result is the
\* platform's open result, and when the platform opens the session it returns
\* success and leaves status Receiving with progress 0, with or without a
\* checksum.
C1_StartFromIdle ==
    [][(/\ last'.op = "startUpdate"
        /\ status = IDLE
        /\ last'.arg > 0
        /\ last'.arg <= getAvailableSize)
       => /\ HasCall(last'.events, "Update.begin")
          /\ last'.ret = B2I(HasCallRes(last'.events, "Update.begin", 1))
          /\ HasCallRes(last'.events, "Update.begin", 1)
               => /\ last'.ret = 1
                  /\ status' = RECEIVING
                  /\ progress' = 0]_vars

\* C1 witness: a checksummed startUpdate of the largest size that fits has
\* succeeded and the platform session is open for that size.
C1_Witness ==
    /\ last.op = "startUpdate"
    /\ last.arg = getAvailableSize
    /\ last.ret = 1
    /\ HasCall(last.events, "Update.setMD5")
    /\ status = RECEIVING
    /\ progress = 0
    /\ upd.open /\ upd.size = getAvailableSize

\* C2: startUpdate called while the status is not Idle fails with
\* AlreadyInProgress, calls no platform primitive and no callback, and leaves
\* status, progress, the record (in RAM and in RTC memory) and the platform
\* session as they were.
C2_StartWhileBusy ==
    [][(last'.op = "startUpdate" /\ status # IDLE)
       => /\ last'.ret = 0
          /\ lastError' = ErrAlreadyInProgress
          /\ last'.events = <<>>
          /\ UNCHANGED <<status, progress, rtcData, rtc_ota_data, upd>>]_vars

\* C2 witness: a startUpdate of a valid size was refused in the middle of a
\* transfer that had already taken bytes, with persistence on.
C2_Witness ==
    /\ last.op = "startUpdate"
    /\ last.arg > 0 /\ last.arg <= getAvailableSize
    /\ last.ret = 0
    /\ lastError = ErrAlreadyInProgress
    /\ status = RECEIVING
    /\ persistent
    /\ upd.open /\ upd.written > 0

\* C3: while Receiving, every writeData the platform accepts leaves the status
\* Receiving, and a finishUpdate whose commit succeeds on a session whose
\* chunks sum to the declared size ends in Complete with progress exactly 100.
C3_ChunksThenFinish ==
    [][/\ (/\ last'.op = "writeData"
           /\ status = RECEIVING
           /\ HasCallRes(last'.events, "Update.write", last'.arg))
          => (last'.ret = last'.arg /\ status' = RECEIVING)
       /\ (/\ last'.op = "finishUpdate"
           /\ status = RECEIVING
           /\ SumSeq(upd.chunks) = upd.size
           /\ HasCallRes(last'.events, "Update.end", 1))
          => (last'.ret = 1 /\ status' = COMPLETE /\ progress' = 100)]_vars

\* C3 witness: a session of declared size 2 delivered as two chunks was
\* committed, the platform having reported no progress at all on the way.
C3_Witness ==
    /\ last.op = "finishUpdate"
    /\ last.ret = 1
    /\ last.arg.size = 2
    /\ last.arg.chunks = <<1, 1>>
    /\ ~Notified(last.events, RECEIVING)
    /\ status = COMPLETE
    /\ progress = 100

\* C4: abortUpdate called while Receiving calls the platform abort and leaves
\* status Idle and progress 0, in memory and, with persistence on, in the
\* record in RTC memory, however many bytes had been written.
C4_AbortFromReceiving ==
    [][(last'.op = "abortUpdate" /\ status = RECEIVING)
       => /\ HasCall(last'.events, "Update.abort")
          /\ status' = IDLE
          /\ progress' = 0
          /\ ~upd'.open
          /\ persistent => /\ rtc_ota_data'.status = IDLE
                           /\ rtc_ota_data'.progress = 0]_vars

\* C4 witness: an abort of a session that had taken bytes, persistence on.
C4_Witness ==
    /\ last.op = "abortUpdate"
    /\ HasCall(last.events, "Update.abort")
    /\ last.arg.written > 0
    /\ persistent
    /\ status = IDLE
    /\ progress = 0
    /\ rtc_ota_data.status = IDLE

\* C5: writeData called while the status is not Receiving returns -1 with the
\* NotReceiving message, never calls the platform write, and leaves status,
\* progress, the record and the platform session unchanged.
C5_WriteOutsideReceiving ==
    [][(last'.op = "writeData" /\ status # RECEIVING)
       => /\ last'.ret = -1
          /\ lastError' = ErrNotReceiving
          /\ ~HasCall(last'.events, "Update.write")
          /\ UNCHANGED <<status, progress, rtcData, rtc_ota_data, upd>>]_vars

\* C5 witness: a non-empty chunk was refused after a failed transfer.
C5_Witness ==
    /\ last.op = "writeData"
    /\ last.arg > 0
    /\ last.ret = -1
    /\ lastError = ErrNotReceiving
    /\ status = ERROR

\* C6: startUpdate called in Idle with size 0 fails with InvalidSize and with
\* a size above the free update-partition capacity fails with
\* InsufficientSpace; either way the status stays Idle, progress and the record
\* are unchanged and the platform open primitive is not called.
C6_StartRejectsSize ==
    [][(/\ last'.op = "startUpdate"
        /\ status = IDLE
        /\ (last'.arg = 0 \/ last'.arg > getAvailableSize))
       => /\ last'.ret = 0
          /\ lastError' = IF last'.arg = 0 THEN ErrInvalidSize
                          ELSE ErrInsufficientSpace
          /\ ~HasCall(last'.events, "Update.begin")
          /\ status' = IDLE
          /\ UNCHANGED <<progress, rtcData, rtc_ota_data, upd>>]_vars

\* C6 witness: a size one above the partition size was refused in Idle.
C6_Witness ==
    /\ last.op = "startUpdate"
    /\ last.arg = getAvailableSize + 1
    /\ last.ret = 0
    /\ lastError = ErrInsufficientSpace
    /\ status = IDLE
    /\ persistent

\* The platform refused the chunk of the writeData just made.
WriteRejected(op) ==
    op.op = "writeData" /\ HasCall(op.events, "Update.write") /\ op.ret = -1

\* The platform commit of the finishUpdate just made failed.
CommitFailed(op) ==
    op.op = "finishUpdate" /\ HasCallRes(op.events, "Update.end", 0)

\* C7: when the platform rejects a write or the commit fails, the engine goes
\* from Receiving to Error, records a non-empty last-error message, writes
\* status Error into the persisted record when persistence is on, and invokes
\* the status callback with Error. (Refuted: the record is not written.)
C7_FailurePersisted ==
    [][(status = RECEIVING /\ (WriteRejected(last') \/ CommitFailed(last')))
       => /\ status' = ERROR
          /\ lastError' # NoError
          /\ callback => Notified(last'.events, ERROR)
          /\ persistent => rtc_ota_data'.status = ERROR]_vars

\* C8: a tick in Complete sets the status to Rebooting, invokes the status
\* callback with Rebooting (the status already set) and only then restarts
\* the device; a tick in any other status changes nothing, calls nothing and
\* does not restart.
C8_TickReboots ==
    [][(last'.op = "handle")
       => IF status = COMPLETE
          THEN /\ status' = REBOOTING
               /\ ~running'
               /\ last'.events[Len(last'.events)].k = "ESP.restart"
               /\ callback => /\ Len(last'.events) = 2
                              /\ last'.events[1].k = "cb"
                              /\ last'.events[1].st = REBOOTING
                              /\ last'.events[1].ms = REBOOTING
          ELSE /\ last'.events = <<>>
               /\ running'
               /\ UNCHANGED <<status, progress, lastError, callback, persistent,
                              rtcData, rtc_ota_data, begun, upd>>]_vars

\* C8 witness: the tick after a completed update has notified Rebooting and
\* restarted the device.
C8_Witness ==
    /\ last.op = "handle"
    /\ status = REBOOTING
    /\ ~running
    /\ Len(last.events) = 2
    /\ last.events[1].k = "cb" /\ last.events[1].st = REBOOTING
    /\ last.events[2].k = "ESP.restart"

\* C9: once the status is Complete, none of startUpdate, writeData,
\* finishUpdate, abortUpdate and setPersistence takes the engine out of
\* Complete, so the next tick reboots. (Refuted: abortUpdate sets Idle.)
C9_NoCancel ==
    [][(/\ status = COMPLETE
        /\ last'.op \in {"startUpdate", "writeData", "finishUpdate",
                         "abortUpdate", "setPersistence"})
       => status' = COMPLETE]_vars

\* C10: begin(persist = true) run after a reset that kept the record the
\* engine had saved restores the in-memory status and progress to the saved
\* values. (Refuted: a record saved after begin(false) and
\* setPersistence(true) carries no magic and is discarded.)
C10_RoundTrip ==
    [][(/\ last.op = "reset" /\ last.arg = 1
        /\ last'.op = "begin" /\ last'.arg = 1)
       => /\ status' = rtc_ota_data.status
          /\ progress' = rtc_ota_data.progress]_vars

\* ------------------------------------------------ what holds of the code
\* Beside C7: on a rejected write or a failed commit the engine does reach
\* Error, sets the message and notifies, and the record in RTC memory is left
\* exactly as it was (still Receiving when persistence is on).
FailureLeavesRecord ==
    [][(status = RECEIVING /\ (WriteRejected(last') \/ CommitFailed(last')))
       => /\ status' = ERROR
          /\ lastError' # NoError
          /\ callback => Notified(last'.events, ERROR)
          /\ UNCHANGED <<rtcData, rtc_ota_data>>]_vars

\* Beside C9: of the five operations only abortUpdate leaves Complete.
OnlyAbortLeavesComplete ==
    [][(/\ status = COMPLETE
        /\ last'.op \in {"startUpdate", "writeData", "finishUpdate",
                         "setPersistence"})
       => status' = COMPLETE]_vars

\* Beside C10: a record that carries RTC_MAGIC is restored as saved.
RoundTripWithMagic ==
    [][(/\ last'.op = "begin" /\ last'.arg = 1
        /\ rtc_ota_data.magic = RTC_MAGIC)
       => /\ status' = rtc_ota_data.status
          /\ progress' = rtc_ota_data.progress]_vars

\* C11: a record that was validly saved and then had one bit of one field
\* (magic, otaEnabled, status, progress or crc) inverted does not pass the
\* validation of the load: until begin() runs it is not a valid record, and
\* once begin() has run neither the in-memory status and progress nor the
\* record hold anything but Idle and 0.
C11_FlipDetected ==
    flip # NoFlip =>
        IF begun /\ persistent
        THEN /\ status = IDLE
             /\ progress = 0
             /\ rtcData.status = IDLE
             /\ rtcData.progress = 0
             /\ rtc_ota_data = rtcData
        ELSE begun \/ rtc_ota_data.magic # RTC_MAGIC
                   \/ rtc_ota_data.crc # calculateCRC(rtc_ota_data)

\* begin(true) has loaded a record saved as Receiving at 57% whose status
\* had its sign bit inverted.
C11_Witness ==
    /\ flip = [field |-> "status", bit |-> 31]
    /\ last.op = "begin" /\ last.arg = 1
    /\ status = IDLE /\ progress = 0

\* C12: begin(true) that finds a record with a wrong magic or a wrong
\* checksum returns success with no error, leaves Idle and progress 0, and
\* writes the record {RTC_MAGIC, enabled, Idle, 0} with the checksum that the
\* next load accepts.
C12_InvalidRecordReplaced ==
    [][(/\ last'.op = "begin" /\ last'.arg = 1
        /\ \/ rtc_ota_data.magic # RTC_MAGIC
           \/ rtc_ota_data.crc # calculateCRC(rtc_ota_data))
       => /\ last'.ret = 1
          /\ lastError' = NoError
          /\ status' = IDLE
          /\ progress' = 0
          /\ rtc_ota_data'.magic = RTC_MAGIC
          /\ rtc_ota_data'.otaEnabled = 1
          /\ rtc_ota_data'.status = IDLE
          /\ rtc_ota_data'.progress = 0
          /\ rtc_ota_data'.crc = Xor32(RTC_MAGIC, U32(1))
          /\ ValidRecord(rtc_ota_data')]_vars

\* begin(true) has replaced a record whose checksum had a bit inverted.
C12_Witness ==
    /\ flip.field = "crc"
    /\ last.op = "begin" /\ last.arg = 1 /\ last.ret = 1
    /\ rtc_ota_data = SavedRecord(IDLE, 0)

\* C13: when begin(true) after a reset has restored Receiving and no
\* startUpdate has succeeded since (the status is Receiving and the platform
\* has no session open), writeData and finishUpdate do not call the platform
\* write or commit primitive.
C13_NoResumeAfterRestore ==
    [][(/\ status = RECEIVING
        /\ ~upd.open
        /\ last'.op \in {"writeData", "finishUpdate"})
       => /\ ~HasCall(last'.events, "Update.write")
          /\ ~HasCall(last'.events, "Update.end")]_vars

\* The step is a chunk event of the upload being parsed.
ChunkEvent == http.phase = "uploading" /\ http'.n = http.n + 1

\* The step is the end event of the upload being parsed.
EndEvent == http.phase = "uploading" /\ http'.call = "finishUpdate"

\* C14: when the startUpdate of an upload's start event failed, no chunk
\* event of that upload gets bytes written to the platform session.
C14_NoChunkAfterFailedStart ==
    [][(ChunkEvent /\ ~http.startOk) => upd'.written = upd.written]_vars

\* C15: when, in an upload whose start succeeded, the platform rejects a
\* chunk, the engine is left in Error with a non-empty lastError; and the
\* chunk events that follow in that upload do not call writeData.
C15_NoForwardAfterRejection ==
    [][/\ (/\ ChunkEvent /\ http.startOk /\ ~http.rejected
           /\ HasCall(last'.events, "Update.write") /\ last'.ret = -1)
          => (status' = ERROR /\ lastError' # NoError)
       /\ (ChunkEvent /\ http.startOk /\ http.rejected /\ status = ERROR)
          => http'.call # "writeData"]_vars

\* The first half of C15 alone, which the code satisfies.
RejectedChunkLeavesError ==
    [][(/\ ChunkEvent /\ http.startOk /\ ~http.rejected
        /\ HasCall(last'.events, "Update.write") /\ last'.ret = -1)
       => (status' = ERROR /\ lastError' # NoError)]_vars

\* C16: the received count is at all times the sum of the chunk lengths
\* delivered since the last start event; and when an upload declared N, had
\* every chunk taken, delivered N bytes in all and its end event's commit
\* succeeds, the received count is N and the engine is Complete at 100%.
C16_UploadCompletes ==
    /\ [](uploadReceived = http.delivered)
    /\ [][(/\ EndEvent /\ http.startOk /\ ~http.rejected
           /\ http.delivered = uploadSize
           /\ HasCallRes(last'.events, "Update.end", 1))
          => /\ uploadReceived' = uploadSize
             /\ status' = COMPLETE
             /\ progress' = 100]_vars

\* An upload of MaxPartition bytes in two chunks has been committed.
C16_Witness ==
    /\ http.phase = "idle" /\ http.call = "finishUpdate"
    /\ http.startOk /\ ~http.rejected
    /\ http.n = 2 /\ http.delivered = MaxPartition
    /\ uploadSize = MaxPartition /\ uploadReceived = MaxPartition
    /\ status = COMPLETE /\ progress = 100

\* The last step of the supervisor was a tick that issued a reconnect.
AttemptIssued ==
    netOp.op = "handle" /\ netOp.calls = <<"WiFi.disconnect", "WiFi.begin">>

C20_ConnectResult ==
    [][/\ (/\ netOp'.op = "connect.poll"
           /\ (wifi.link \/ Elapsed(conn.startTime) >= conn.timeout))
          => conn'.pc = "check"
       /\ netOp'.op = "connect"
          => /\ netOp'.ret = 1 <=> wifi.link
             /\ netOp'.ret = 1 => nm'.status = CONNECTED
             /\ netOp'.ret # 1 => nm'.status = FAILED
             /\ nm'.status # CONNECTING]_vars

\* What connect() does guarantee: the same, for the calls that poll (those
\* made in a status other than Connected); a call made in Connected returns
\* true at once and leaves the status.
ConnectAfterPolling ==
    [][/\ (/\ netOp'.op = "connect.poll"
           /\ (wifi.link \/ Elapsed(conn.startTime) >= conn.timeout))
          => conn'.pc = "check"
       /\ (netOp'.op = "connect" /\ conn.pc = "check")
          => /\ netOp'.ret = 1 <=> wifi.link
             /\ netOp'.ret = 1 => nm'.status = CONNECTED
             /\ netOp'.ret # 1 => nm'.status = FAILED
       /\ (netOp'.op = "connect" /\ conn.pc = "idle")
          => /\ netOp'.ret = 1
             /\ nm.status = CONNECTED
             /\ UNCHANGED nm
       /\ netOp'.op = "connect" => nm'.status # CONNECTING]_vars

\* Time from the i-th recorded attempt to the next one.
Gap(i) == (attemptLog[i + 1] - attemptLog[i]) % ClockMod

\* C18: with auto-reconnect on, the link down and a tick in every time
\* unit, attempts come in groups of MAX_RECONNECT_ATTEMPTS: within a group
\* each attempt is reconnectInterval after the one before, and the first of
\* the next group comes once 10 x reconnectInterval has elapsed since the
\* last of the group (at the tick after the one that ends the wait).
C18_ReconnectSchedule ==
    \A i \in 1 .. (Len(attemptLog) - 1) :
        IF i % MAX_RECONNECT_ATTEMPTS = 0
        THEN /\ Gap(i) >= 10 * nm.reconnectInterval
             /\ Gap(i) <= 10 * nm.reconnectInterval + 1
        ELSE Gap(i) = nm.reconnectInterval

\* Two groups of five attempts and the first attempt of a third have been
\* issued at the longest interval, the link never having come up.
C18_Witness ==
    /\ ~wifi.link
    /\ Len(attemptLog) = MaxLog
    /\ nm.reconnectInterval = MaxInterval
    /\ nm.reconnectAttempts = 1

\* C19: under the fair schedule, if the link stays down for ever reconnect
\* attempts are issued again and again; and once the access point is in
\* reach and an association has been requested, the status comes to
\* Connected.
C19_ReconnectLiveness ==
    /\ ([]~wifi.link) => []<>AttemptIssued
    /\ (wifi.avail /\ wifi.joining) ~> (nm.status = CONNECTED)

\* The access point came into reach after five failed attempts, the station
\* associated and the got-address event brought the status to Connected.
C19_Witness ==
    /\ wifi.avail /\ wifi.link
    /\ nm.status = CONNECTED
    /\ nm.reconnectAttempts = MAX_RECONNECT_ATTEMPTS
    /\ netOp.op = "onWiFiEvent"

\* The operations of the engine that can change its status or progress.
EngineOps == {"begin", "startUpdate", "writeData", "finishUpdate",
              "abortUpdate", "handle"}

\* C21: with persistence enabled, whenever begin, startUpdate, writeData,
\* finishUpdate, abortUpdate or the tick has returned, the status and progress
\* of the persisted record equal the in-memory status and progress, also after
\* the transitions to Error and to Rebooting. (Refuted: the paths to Error and
\* to Rebooting do not write the record.)
C21_RecordIsSnapshot ==
    [][(last'.op \in EngineOps /\ persistent')
       => /\ rtc_ota_data'.status = status'
          /\ rtc_ota_data'.progress = progress']_vars

\* C22: at every invocation of the status callback with (status, progress)
\* the in-memory status and progress equal the values passed and, with
\* persistence on, the persisted record already holds them; progress
\* notifications made during writeData and the Error and Rebooting
\* notifications included. (Refuted: the record is written after the progress
\* notification and not at all before the Error and Rebooting ones.)
C22_NotifyAfterUpdate ==
    \A i \in DOMAIN last.events :
        LET e == last.events[i]
        IN e.k = "cb"
           => /\ e.ms = e.st
              /\ e.mp = e.pg
              /\ persistent => (e.rs = e.st /\ e.rp = e.pg)

\* C23: after a failure has put the engine in Error, abortUpdate returns the
\* status to Idle, and the startUpdate that follows with a size that is
\* neither zero nor above the partition size goes to the platform and, the
\* platform opening the session, reaches Receiving and returns true; this
\* after any number of failures in a row.
C23_RetryAfterFailure ==
    [][/\ (retry.phase = "error" /\ last'.op = "abortUpdate")
          => (status = ERROR /\ status' = IDLE)
       /\ (/\ retry.phase = "aborted"
           /\ last'.op = "startUpdate"
           /\ last'.arg \in 1 .. getAvailableSize)
          => /\ status = IDLE
             /\ HasCall(last'.events, "Update.begin")
             /\ HasCallRes(last'.events, "Update.begin", 1)
                => (status' = RECEIVING /\ last'.ret = 1)]_vars

\* C23 witness: after MaxFailures failures in a row, the last one aborted,
\* a start has been accepted.
C23_Witness ==
    /\ retry = [failures |-> MaxFailures, phase |-> "none"]
    /\ last.op = "startUpdate" /\ last.ret = 1
    /\ status = RECEIVING
    /\ upd.open

\* The progress reports the platform made during the operation `op`: the
\* notifications with status Receiving other than the one startUpdate makes.
Reports(op) ==
    SelectSeq(op.events, LAMBDA e : e.k = "cb" /\ e.st = RECEIVING)

\* C24: the progress is always within 0..100, in memory and in the record;
\* a started update has progress 0, and a chunk taken while Receiving leaves
\* the progress at floor(100 * bytes written / declared size) when the
\* platform reported while writing, and as it was when the platform made no
\* report; every report is passed to the status callback, when one is set, as
\* (Receiving, percent).
C24_ProgressPercent ==
    /\ [](/\ progress \in 0 .. 100
          /\ rtcData.progress \in 0 .. 100
          /\ rtc_ota_data.progress \in 0 .. 100)
    /\ [][/\ (last'.op = "startUpdate" /\ last'.ret = 1)
             => (status' = RECEIVING /\ progress' = 0)
          /\ (last'.op = "writeData" /\ last'.ret > 0)
             => /\ status' = RECEIVING
                /\ progress' \in {progress, (100 * upd'.written) \div upd'.size}
                /\ IF Reports(last') = <<>>
                   THEN callback => progress' = progress
                   ELSE /\ Len(Reports(last')) = 1
                        /\ Reports(last')[1].pg = (100 * upd'.written) \div upd'.size
                        /\ progress' = Reports(last')[1].pg
                /\ persistent => rtc_ota_data'.progress = progress'
          /\ (last'.op = "finishUpdate" /\ Reports(last') # <<>>)
             => Reports(last')[1].pg = (100 * upd.written) \div upd.size]_vars

\* C24 witness: half of the declared size is written, the platform reported
\* it, and the callback got (Receiving, 50).
C24_Witness ==
    /\ last.op = "writeData" /\ last.ret = 1
    /\ status = RECEIVING
    /\ upd.size = 2 /\ upd.written = 1
    /\ Reports(last) # <<>>
    /\ Reports(last)[1].pg = 50
    /\ progress = 50
    /\ persistent /\ rtc_ota_data.progress = 50

\* C25: whenever persistence is enabled and begin has run, the stored record
\* carries RTC_MAGIC and a checksum equal to the exclusive or of its magic,
\* enabled flag, status and progress, after every engine operation, so that
\* it passes validation on the next load. (Refuted: after begin(false),
\* setPersistence(true) stores a record without the magic.)
C25_StoredRecordValid ==
    (begun /\ persistent)
       => /\ rtc_ota_data.magic = RTC_MAGIC
          /\ rtc_ota_data.crc =
                Xor32(U32(rtc_ota_data.progress),
                      Xor32(U32(rtc_ota_data.status),
                            Xor32(BoolU32(rtc_ota_data.otaEnabled),
                                  rtc_ota_data.magic)))

\* Beside C25: the checksum of the stored record is always the exclusive or
\* of its four fields; only the magic can be missing.
StoredChecksumConsistent ==
    rtc_ota_data.crc =
        Xor32(U32(rtc_ota_data.progress),
              Xor32(U32(rtc_ota_data.status),
                    Xor32(BoolU32(rtc_ota_data.otaEnabled), rtc_ota_data.magic)))

\* C26: with persistence disabled no operation of the engine reads or writes
\* the record in RTC memory: begin(false) starts at Idle with progress 0
\* whatever the record holds, and startUpdate, writeData, finishUpdate,
\* abortUpdate, the tick, setCallback and setPersistence(false) leave the
\* record and its RAM copy as they were.
C26_DisabledLeavesRecord ==
    [][(/\ last'.op \in EngineOps \cup {"setCallback", "setPersistence"}
        /\ ~persistent')
       => /\ rtc_ota_data' = rtc_ota_data
          /\ rtcData' = rtcData
          /\ last'.op = "begin" => (status' = IDLE /\ progress' = 0)]_vars

\* C26 witness: an update has been completed with persistence disabled while
\* RTC memory still holds the valid record of an earlier transfer.
C26_Witness ==
    /\ begun /\ ~persistent
    /\ last.op = "finishUpdate" /\ last.ret = 1
    /\ status = COMPLETE /\ progress = 100
    /\ ValidRecord(rtc_ota_data)
    /\ rtc_ota_data.status = RECEIVING

\* The invocations of the status callback made during the operation `op`, in
\* order.
Invocations(op) == SelectSeq(op.events, LAMBDA e : e.k = "cb")

\* C27: two consecutive invocations of the status callback, made by one
\* operation or by two operations that follow each other, never carry the
\* same status unless it is Receiving, and abortUpdate called in Idle makes
\* no invocation. (Refuted: abortUpdate notifies Idle whatever the status
\* was.)
C27_EngineNotifyOnChange ==
    [][/\ LET s == Invocations(last) \o Invocations(last')
          IN \A i \in 1 .. (Len(s) - 1) :
                s[i].st = s[i + 1].st => s[i].st = RECEIVING
       /\ (last'.op = "abortUpdate" /\ status = IDLE)
          => Invocations(last') = <<>>]_vars

\* C28: a tick made while auto-reconnect is disabled, or while the supervisor
\* is connected (link up and status Connected), or while the status is
\* Connecting, changes neither the status nor the attempt counter nor the
\* time of the last attempt, makes no link call and no notification.
C28_TickSuppressed ==
    [][(/\ netOp'.op = "handle"
        /\ \/ ~nm.autoReconnect
           \/ (wifi.link /\ nm.status = CONNECTED)
           \/ nm.status = CONNECTING)
       => /\ nm' = nm
          /\ wifi' = wifi
          /\ netOp'.calls = <<>>
          /\ netOp'.notes = <<>>
          /\ noted' = noted]_vars

\* C28 witness: a tick has run with the supervisor connected, auto-reconnect
\* on and an attempt otherwise due, and did nothing.
C28_Witness ==
    /\ netOp.op = "handle" /\ netOp.calls = <<>>
    /\ nm.autoReconnect
    /\ wifi.link /\ nm.status = CONNECTED
    /\ nm.reconnectAttempts < MAX_RECONNECT_ATTEMPTS
    /\ Elapsed(nm.lastReconnectAttempt) >= nm.reconnectInterval
    /\ nm.reconnectInterval > 0

\* The step is a tick that issued a reconnect.
ReconnectIssued == netOp'.op = "handle" /\ netOp'.calls # <<>>

\* C29: a tick issues a reconnect only when the time since the last attempt
\* is at least the reconnect interval and the attempt counter is below
\* MAX_RECONNECT_ATTEMPTS; the reconnect adds exactly one to the counter,
\* records the current time as the time of the last attempt (which nothing
\* else changes) and sets the status to Reconnecting; so two consecutive
\* attempts are at least the interval apart and the counter never exceeds
\* MAX_RECONNECT_ATTEMPTS.
C29_AttemptConditions ==
    /\ [](nm.reconnectAttempts \in 0 .. MAX_RECONNECT_ATTEMPTS)
    /\ [][/\ ReconnectIssued
             => /\ (now - nm.lastReconnectAttempt) % ClockMod >= nm.reconnectInterval
                /\ nm.reconnectAttempts < MAX_RECONNECT_ATTEMPTS
                /\ nm'.reconnectAttempts = nm.reconnectAttempts + 1
                /\ nm'.lastReconnectAttempt = now
                /\ nm'.status = RECONNECTING
                /\ netOp'.calls = <<"WiFi.disconnect", "WiFi.begin">>
          /\ nm'.lastReconnectAttempt # nm.lastReconnectAttempt
             => ReconnectIssued]_vars

\* C29 witness: the fifth reconnect in a row has just been issued, one
\* interval after the fourth.
C29_Witness ==
    /\ netOp.op = "handle"
    /\ netOp.calls = <<"WiFi.disconnect", "WiFi.begin">>
    /\ nm.reconnectInterval = 1
    /\ nm.reconnectAttempts = MAX_RECONNECT_ATTEMPTS
    /\ nm.lastReconnectAttempt = now
    /\ nm.status = RECONNECTING

\* C30: with the attempt counter at MAX_RECONNECT_ATTEMPTS, a tick made once
\* ten reconnect intervals have passed since the last attempt sets the
\* counter to 0 and does nothing else: no link call, no notification, the
\* time of the last attempt and the status as they were; a tick made before
\* that changes nothing.
C30_CooldownReset ==
    [][(/\ netOp'.op = "handle"
        /\ nm.reconnectAttempts >= MAX_RECONNECT_ATTEMPTS)
       => /\ IF (now - nm.lastReconnectAttempt) % ClockMod
                   >= 10 * nm.reconnectInterval
             THEN nm' = [nm EXCEPT !.reconnectAttempts = 0]
             ELSE nm' = nm
          /\ wifi' = wifi
          /\ netOp'.calls = <<>>
          /\ netOp'.notes = <<>>
          /\ noted' = noted
          /\ attemptLog' = attemptLog]_vars

\* C30 witness: the tick that ended the wait after five attempts has run; the
\* counter is 0 and the last attempt is still the fifth, ten intervals ago.
C30_Witness ==
    /\ netOp.op = "handle" /\ netOp.calls = <<>>
    /\ Len(attemptLog) = MAX_RECONNECT_ATTEMPTS
    /\ nm.reconnectAttempts = 0
    /\ nm.reconnectInterval = MaxInterval
    /\ nm.lastReconnectAttempt = attemptLog[MAX_RECONNECT_ATTEMPTS]
    /\ (now - nm.lastReconnectAttempt) % ClockMod = 10 * nm.reconnectInterval
    /\ nm.status = RECONNECTING

\* C33: whenever the engine status is Idle no platform update session is
\* open. (Refuted: begin() called during a transfer sets Idle and aborts
\* nothing; abortUpdate called in Error aborts nothing either.)
C33_IdleHasNoSession == (begun /\ status = IDLE) => ~upd.open

\* Beside C33: abortUpdate called in Receiving does close the session.
AbortFromReceivingCloses ==
    [][(status = RECEIVING /\ last'.op = "abortUpdate")
       => (~upd'.open /\ HasCall(last'.events, "Update.abort"))]_vars

\* C35: whenever the status of the supervisor becomes Connected, by a
\* connect() that succeeds or by a got-address event, the attempt counter
\* is 0. (Refuted: the event handler leaves the counter as the reconnect
\* attempts left it.)
C35_ConnectedResetsAttempts ==
    [][(nm.status # CONNECTED /\ nm'.status = CONNECTED)
       => nm'.reconnectAttempts = 0]_vars

\* Beside C35: a connect() that returns true leaves the counter at 0.
ConnectResetsAttempts ==
    [][(netOp'.op = "connect" /\ netOp'.ret = 1 /\ nm.status # CONNECTED)
       => nm'.reconnectAttempts = 0]_vars

\* C39: after an explicit disconnect() no tick issues a link association or
\* takes the status out of Disconnected, auto-reconnect enabled or not; here
\* for the tick that follows the disconnect() at once. (Refuted: the tick
\* knows nothing of the disconnect and reconnects when the interval has
\* passed since the last attempt.)
C39_DisconnectIsFinal ==
    [][(netOp.op = "disconnect" /\ netOp'.op = "handle")
       => (nm'.status = DISCONNECTED /\ netOp'.calls = <<>>)]_vars

\* ------------------------------------------- restarts after a completion
\* Beside each engine operation: a finishUpdate that returned true starts the
\* count of restarts anew, a tick that called ESP.restart() adds one. The
\* restarts are followed up to MaxReboots.
Rebooted ==
    /\ reboots' = IF last'.op = "finishUpdate" /\ last'.ret = 1 THEN 0
                  ELSE IF last'.op = "handle" /\ ~running' THEN reboots + 1
                  ELSE reboots
    /\ reboots' <= MaxReboots
    /\ UNCHANGED <<flip, retry, uploadVars, netVars, race, req, compat>>

\* The firmware with persistence enabled (ElegantOTACompat::begin calls
\* OTACore::begin(true)) on a device whose resets keep the RTC memory:
\* begin(true) at boot, then update operations and ticks in any order.
NextBoot ==
    \/ ~begun /\ Begin(TRUE) /\ Rebooted
    \/ \E s \in BOOLEAN : SetCallback(s) /\ Rebooted
    \/ \E size \in Sizes, ok \in BOOLEAN : StartUpdate(size, FALSE, ok) /\ Rebooted
    \/ \E len \in Lens, a \in BOOLEAN, rep \in BOOLEAN :
          WriteData(TRUE, len, a, rep) /\ Rebooted
    \/ \E ok \in BOOLEAN, rep \in BOOLEAN : FinishUpdate(ok, rep) /\ Rebooted
    \/ AbortUpdate /\ Rebooted
    \/ Handle /\ Rebooted
    \/ Reset(TRUE) /\ Rebooted

SpecBoot == Init /\ [][NextBoot]_vars

\* C32: with persistence enabled and the record kept over restarts, one
\* successful finishUpdate causes one device restart: the ticks made after
\* the restart and begin(true) cause no other until a new update has been
\* completed. (Refuted: the record still says Complete after the restart,
\* begin(true) restores it and the next tick restarts the device again.)
C32_OneRestartPerUpdate == reboots <= 1

\* C37: whenever the upload handler computes the progress of a chunk (the
\* engine took the chunk whole), the declared size of the upload is above 0
\* and the bytes received are not more than it, so the division is defined
\* and the value reported is within 0..100. (Refuted: a start event the
\* engine refused while Receiving from an earlier upload leaves the declared
\* size of the refused one, 0 included, and the chunks that follow are taken.)
C37_ProgressDefined ==
    (http.call = "writeData" /\ http.sent = 0)
       => /\ uploadSize > 0
          /\ uploadReceived <= uploadSize
          /\ http.event = "progress"
          /\ http.value \in 0 .. 100

\* ------------------------------------------------ the update POST request
\* The responses of a request after an upload event that sent the code
\* sent (0: none).
Replied(replies, sent) == IF sent = 0 THEN replies ELSE Append(replies, sent)

\* OTAWebServer::authenticate for the request r.
authenticate(r) == ~r.secured \/ r.auth

\* A POST to the update path arrives and the server hands the start of its
\* file part to the upload handler (the server parses the body, calling the
\* upload handler, before it calls the request handler).
PostStart(secured, auth, total, platformOk) ==
    /\ req.phase \in {"none", "answered"}
    /\ UploadStart(total, platformOk)
    /\ req' = [phase |-> "upload", secured |-> secured, auth |-> auth,
               done |-> FALSE, replies |-> Replied(<<>>, http'.sent)]

\* The next chunk of the body.
PostWrite(len, accept, report) ==
    /\ req.phase = "upload"
    /\ UploadWrite(len, accept, report)
    /\ req' = [req EXCEPT !.replies = Replied(@, http'.sent)]

\* The end of the file part.
PostEnd(commitOk, report) ==
    /\ req.phase = "upload"
    /\ UploadEnd(commitOk, report)
    /\ req' = [req EXCEPT !.phase = "parsed", !.done = (last'.ret = 1)]

\* The client closes the connection during the body: the request handler is
\* not called.
PostAborted ==
    /\ req.phase = "upload"
    /\ UploadAborted
    /\ req' = NoRequest

\* OTAWebServer::handleUpdatePost, called once the body has been parsed;
\* requestAuthentication answers 401.
handleUpdatePost ==
    /\ running /\ begun
    /\ req.phase = "parsed"
    /\ req' = [req EXCEPT !.phase = "answered",
                          !.replies = Append(@, IF authenticate(req)
                                                THEN 200 ELSE 401)]
    /\ UNCHANGED <<engineVars, flip, retry, uploadVars, netVars>>

\* A device reset drops the request.
PostReset(survive) ==
    /\ ResetAll(survive)
    /\ req' = NoRequest

\* What of the layers the request does not touch.
notReq == <<race, compat, reboots>>

\* The firmware serving update requests: begin() at boot, then the main loop
\* ticking the engine and the server.
NextHttp ==
    \/ \E p \in BOOLEAN : ~begun /\ Begin(p) /\ UNCHANGED envVars
    \/ \E s \in BOOLEAN, a \in BOOLEAN, total \in Sizes, ok \in BOOLEAN :
          PostStart(s, a, total, ok) /\ UNCHANGED notReq
    \/ \E len \in Lens, a \in BOOLEAN, rep \in BOOLEAN :
          PostWrite(len, a, rep) /\ UNCHANGED notReq
    \/ \E ok \in BOOLEAN, rep \in BOOLEAN : PostEnd(ok, rep) /\ UNCHANGED notReq
    \/ PostAborted /\ UNCHANGED notReq
    \/ handleUpdatePost /\ UNCHANGED notReq
    \/ Handle /\ UNCHANGED envVars
    \/ \E s \in BOOLEAN : PostReset(s) /\ UNCHANGED notReq

SpecHttp == Init /\ [][NextHttp]_vars

\* An upload event of a request that carries no valid credentials although
\* a user name is configured.
UnauthenticatedEvent ==
    /\ req'.secured /\ ~req'.auth
    /\ req'.phase \in {"upload", "parsed"}
    /\ http' # http

\* C34: with credentials configured, an upload request that fails the
\* authentication never drives the engine: no upload event of it changes
\* the engine or the platform session. (Refuted: the upload handler does not
\* authenticate; only the request handler, which runs after the body, does.)
C34_UnauthenticatedNeverDrives ==
    [][UnauthenticatedEvent => UNCHANGED engineVars]_vars

\* C36: the request is answered 200 only if finishUpdate returned true for
\* its upload. (Refuted: the request handler answers 200 to every
\* authenticated request, and a failed finishUpdate sends no response of its
\* own.)
C36_SuccessOnlyIfComplete ==
    (/\ req.phase = "answered"
     /\ req.replies # <<>>
     /\ req.replies[1] = 200)
       => req.done

\* -------------------------------------------- ElegantOTA compatibility layer
\* ElegantOTACompat::onOTAEvent over the notifications an engine operation
\* made: the runs of _onStartCallback (status Receiving with progress 0) ...
OTAStarts(events) ==
    Len(SelectSeq(events, LAMBDA e : e.k = "cb" /\ e.st = RECEIVING /\ e.pg = 0))

\* ... and of _onEndCallback (status Complete).
OTAEnds(events) ==
    Len(SelectSeq(events, LAMBDA e : e.k = "cb" /\ e.st = COMPLETE))

\* ElegantOTACompat::onServerEvent: UPLOAD_START runs _onStartCallback once.
ServerStarts == 1

\* ElegantOTACompat::onServerEvent: UPLOAD_COMPLETE, sent when finishUpdate
\* returned true, runs _onEndCallback once.
ServerEnds(finished) == IF finished THEN 1 ELSE 0

\* ElegantOTACompat::begin(server, ...), first half: OTACore::begin(true).
CompatBegin(external) ==
    /\ compat.init = "no"
    /\ ~begun
    /\ Begin(TRUE)
    /\ compat' = [NoCompat EXCEPT !.init = "core", !.external = external]

\* ElegantOTACompat::begin, second half: OTACore::setCallback(onOTAEvent),
\* then the routes on the external server, or OTAWebServer::begin and
\* OTAWebServer::setCallback(onServerEvent).
CompatBeginRoutes ==
    /\ compat.init = "core"
    /\ SetCallback(TRUE)
    /\ compat' = [compat EXCEPT !.init = "yes"]

\* Internal server: the upload handler of OTAWebServer on UPLOAD_FILE_START;
\* sendEvent(UPLOAD_START) precedes startUpdate.
CompatUploadStart(total, platformOk) ==
    /\ compat.init = "yes" /\ ~compat.external
    /\ UploadStart(total, platformOk)
    /\ compat' = [compat EXCEPT !.phase = "uploading", !.n = 0,
                                !.startOk = (last'.ret = 1), !.done = FALSE,
                                !.starts = ServerStarts + OTAStarts(last'.events),
                                !.ends = 0]

\* Internal server: UPLOAD_FILE_WRITE.
CompatUploadWrite(len, accept, report) ==
    /\ compat.init = "yes" /\ ~compat.external
    /\ UploadWrite(len, accept, report)
    /\ compat' = [compat EXCEPT !.n = @ + 1,
                                !.starts = @ + OTAStarts(last'.events)]

\* Internal server: UPLOAD_FILE_END.
CompatUploadEnd(commitOk, report) ==
    /\ compat.init = "yes" /\ ~compat.external
    /\ UploadEnd(commitOk, report)
    /\ compat' = [compat EXCEPT !.phase = "ended", !.done = (last'.ret = 1),
                                !.starts = @ + OTAStarts(last'.events),
                                !.ends = @ + OTAEnds(last'.events)
                                           + ServerEnds(last'.ret = 1)]

\* External server: the upload handler of setupExternalServerRoutes on
\* UPLOAD_FILE_START.
ExternalStart(total, platformOk) ==
    /\ compat.init = "yes" /\ compat.external
    /\ compat.phase # "uploading"
    /\ StartUpdate(total, FALSE, platformOk)
    /\ compat' = [compat EXCEPT !.phase = "uploading", !.n = 0,
                                !.startOk = (last'.ret = 1), !.done = FALSE,
                                !.starts = OTAStarts(last'.events),
                                !.ends = 0]

\* External server: UPLOAD_FILE_WRITE.
ExternalWrite(len, accept, report) ==
    /\ compat.init = "yes" /\ compat.external
    /\ compat.phase = "uploading"
    /\ compat.n < MaxChunks
    /\ WriteData(TRUE, len, accept, report)
    /\ compat' = [compat EXCEPT !.n = @ + 1,
                                !.starts = @ + OTAStarts(last'.events)]

\* External server: UPLOAD_FILE_END.
ExternalEnd(commitOk, report) ==
    /\ compat.init = "yes" /\ compat.external
    /\ compat.phase = "uploading"
    /\ FinishUpdate(commitOk, report)
    /\ compat' = [compat EXCEPT !.phase = "ended", !.done = (last'.ret = 1),
                                !.starts = @ + OTAStarts(last'.events),
                                !.ends = @ + OTAEnds(last'.events)]

\* ElegantOTACompat::loop: OTACore::handle() once initialised.
CompatLoop ==
    /\ compat.init = "yes"
    /\ Handle

\* A device reset re-initialises the layer as well.
CompatReset(survive) ==
    /\ ResetAll(survive)
    /\ compat' = NoCompat

\* What of the layers the compatibility layer does not touch.
notCompat == <<race, req, reboots>>

\* What an upload through the external server leaves alone.
notExternal == <<flip, retry, uploadVars, netVars, notCompat>>

\* The firmware using ElegantOTACompat: begin() at boot with or without a
\* server of its own, then loop() and uploads.
NextCompat ==
    \/ \E e \in BOOLEAN : CompatBegin(e) /\ UNCHANGED <<flip, retry, uploadVars, netVars, notCompat>>
    \/ CompatBeginRoutes /\ UNCHANGED <<flip, retry, uploadVars, netVars, notCompat>>
    \/ \E total \in Sizes, ok \in BOOLEAN :
          CompatUploadStart(total, ok) /\ UNCHANGED notCompat
    \/ \E len \in Lens, a \in BOOLEAN, rep \in BOOLEAN :
          CompatUploadWrite(len, a, rep) /\ UNCHANGED notCompat
    \/ \E ok \in BOOLEAN, rep \in BOOLEAN :
          CompatUploadEnd(ok, rep) /\ UNCHANGED notCompat
    \/ \E total \in Sizes, ok \in BOOLEAN :
          ExternalStart(total, ok) /\ UNCHANGED notExternal
    \/ \E len \in Lens, a \in BOOLEAN, rep \in BOOLEAN :
          ExternalWrite(len, a, rep) /\ UNCHANGED notExternal
    \/ \E ok \in BOOLEAN, rep \in BOOLEAN :
          ExternalEnd(ok, rep) /\ UNCHANGED notExternal
    \/ CompatLoop /\ UNCHANGED envVars
    \/ \E s \in BOOLEAN : CompatReset(s) /\ UNCHANGED notCompat

SpecCompat == Init /\ [][NextCompat]_vars

\* C38: through the compatibility layer each update attempt runs the user's
\* onStart callback exactly once, and only if startUpdate succeeded, and each
\* successful update runs onEnd exactly once, with the internal and with an
\* external server. (Refuted: with the internal server the start event of the
\* server and the first notification of the engine both run onStart, the
\* former whatever startUpdate returns; onEnd runs twice likewise.)
C38_CallbacksOncePerUpdate ==
    /\ compat.phase # "idle" => compat.starts = B2I(compat.startOk)
    /\ (compat.phase = "ended" /\ compat.done) => compat.ends = 1

\* ------------------------------- connect() and the event task, step by step
\* What the steps of the two tasks leave alone.
notRace == <<engineVars, flip, retry, uploadVars, req, compat, reboots,
             attemptLog>>

\* updateStatus: if (_callback) _callback(newStatus, message)
Callbacks(n, newStatus) == IF n.callback THEN <<newStatus>> ELSE <<>>

\* connect(timeout) is called while the event task is idle; the notifications
\* are logged from here on.
RaceConnect(timeout) ==
    /\ race.conn = "none" /\ race.evt = "none"
    /\ wifi.events = <<>>
    /\ NetConnect(timeout)
    /\ race' = [RaceIdle EXCEPT !.log = Notes(nm, CONNECTING)]

\* One evaluation of the loop condition of connect().
RacePoll ==
    /\ ConnectPoll
    /\ UNCHANGED race

\* connect after the loop: WiFi.status() is read and updateStatus is entered;
\* its test if (_status != newStatus) is made. When the test fails connect
\* returns.
ConnTest ==
    /\ conn.pc = "check" /\ race.conn = "none"
    /\ LET to == IF wifi.link THEN CONNECTED ELSE FailedStatus
       IN IF Changed(nm.status, to)
          THEN /\ race' = [race EXCEPT !.conn = "set", !.connTo = to]
               /\ netOp' = NetOp("connect.test", conn.timeout, 0, <<>>, <<>>)
               /\ UNCHANGED <<nm, conn>>
          ELSE /\ nm' = IF to = CONNECTED
                        THEN [nm EXCEPT !.reconnectAttempts = 0] ELSE nm
               /\ conn' = ConnIdle
               /\ netOp' = NetOp("connect", conn.timeout, B2I(to = CONNECTED),
                                 <<>>, <<>>)
               /\ UNCHANGED race
    /\ UNCHANGED <<wifi, now, noted>>

\* updateStatus in connect: _status = newStatus
ConnSet ==
    /\ race.conn = "set"
    /\ nm' = [nm EXCEPT !.status = race.connTo]
    /\ race' = [race EXCEPT !.conn = "notify"]
    /\ netOp' = NetOp("connect.set", conn.timeout, 0, <<>>, <<>>)
    /\ UNCHANGED <<wifi, now, conn, noted>>

\* updateStatus in connect: the callback; then _reconnectAttempts = 0 after
\* a success, and connect returns.
ConnNotify ==
    /\ race.conn = "notify"
    /\ LET notes == Callbacks(nm, race.connTo)
       IN /\ race' = [race EXCEPT !.conn = "none", !.log = @ \o notes]
          /\ netOp' = NetOp("connect", conn.timeout,
                            B2I(race.connTo = CONNECTED), <<>>, notes)
          /\ noted' = Noted(notes)
    /\ nm' = IF race.connTo = CONNECTED
             THEN [nm EXCEPT !.reconnectAttempts = 0] ELSE nm
    /\ conn' = ConnIdle
    /\ UNCHANGED <<wifi, now>>

\* onWiFiEvent in the event task, on the oldest pending event: the switch
\* and, where updateStatus is called, its test.
EvtTest ==
    /\ wifi.events # <<>> /\ race.evt = "none"
    /\ LET ev == Head(wifi.events)
           to == IF ev = "GOT_IP" THEN CONNECTED ELSE DISCONNECTED
           called == ev = "GOT_IP" \/ nm.status = CONNECTED
           passed == called /\ Changed(nm.status, to)
       IN /\ race' = [race EXCEPT
                         !.evt = IF passed THEN "set" ELSE "none",
                         !.evtTo = IF passed THEN to ELSE @,
                         !.inPoll = @ \/ (ev = "GOT_IP" /\ conn.pc = "poll")]
          /\ netOp' = NetOp("onWiFiEvent.test", B2I(ev = "GOT_IP"), 0, <<>>, <<>>)
    /\ wifi' = [wifi EXCEPT !.events = Tail(@)]
    /\ UNCHANGED <<nm, now, conn, noted>>

\* updateStatus in the event task: _status = newStatus
EvtSet ==
    /\ race.evt = "set"
    /\ nm' = [nm EXCEPT !.status = race.evtTo]
    /\ race' = [race EXCEPT !.evt = "notify"]
    /\ netOp' = NetOp("onWiFiEvent.set", 0, 0, <<>>, <<>>)
    /\ UNCHANGED <<wifi, now, conn, noted>>

\* updateStatus in the event task: the callback.
EvtNotify ==
    /\ race.evt = "notify"
    /\ LET notes == Callbacks(nm, race.evtTo)
       IN /\ race' = [race EXCEPT !.evt = "none", !.log = @ \o notes]
          /\ netOp' = NetOp("onWiFiEvent", 0, 0, <<>>, notes)
          /\ noted' = Noted(notes)
    /\ UNCHANGED <<nm, wifi, now, conn>>

\* connect() in the loop task and onWiFiEvent in the event task of the
\* platform, which share _status without a lock: every order of their steps,
\* with the station getting its address at any moment and staying up.
NextRace ==
    \/ \E t \in Timeouts : RaceConnect(t) /\ UNCHANGED notRace
    \/ RacePoll /\ UNCHANGED notRace
    \/ ConnTest /\ UNCHANGED notRace
    \/ ConnSet /\ UNCHANGED notRace
    \/ ConnNotify /\ UNCHANGED notRace
    \/ EvtTest /\ UNCHANGED notRace
    \/ EvtSet /\ UNCHANGED notRace
    \/ EvtNotify /\ UNCHANGED notRace
    \/ LinkUp /\ UNCHANGED <<notRace, race>>
    \/ now < MaxTime /\ TimePasses /\ UNCHANGED <<notRace, race>>

SpecRace == InitNet /\ [][NextRace]_vars

\* The number of times x was notified.
CountOf(q, x) == Len(SelectSeq(q, LAMBDA e : e = x))

\* connect() has returned and the event task has nothing left to do.
RaceOver ==
    /\ conn.pc = "idle"
    /\ race.conn = "none" /\ race.evt = "none"
    /\ wifi.events = <<>>

\* C31: when the got-address event is handed to the event task while
\* connect() is polling, then under every order of the steps of the two the
\* observer is notified of Connected exactly once and the status ends as
\* Connected. (Refuted: both calls of updateStatus can pass the test
\* _status != CONNECTED before either assigns, and both then notify.)
C31_EventIdempotentWithPolling ==
    (race.inPoll /\ RaceOver)
       => /\ CountOf(race.log, CONNECTED) = 1
          /\ nm.status = CONNECTED

====
